---------------------------- MODULE Spec2Model ----------------------------
(***************************************************************************)
(* Model of the PDFId service (pdf_id/pdf_id.py, pdfid/plugin_triage.py):  *)
(* the keyword triage of analyze_pdf, the disposition of carved content,   *)
(* the PDFiD flag / plugin parsing, and the object stream driver           *)
(* (analyze_objstm, write_objstm, execute).                                *)
(*                                                                         *)
(* Python strings are modelled as sequences of tokens (a token is a TLA+   *)
(* string; white space between tokens is not represented), so '' is <<>>.  *)
(* A parser report is a sequence of lines, each line a token sequence.     *)
(***************************************************************************)
EXTENDS Integers, Sequences, FiniteSets, TLC

VARIABLES
    pc,                 \* position in the modelled routine
    deep_scan,          \* request.deep_scan
    doc,                \* the sample as the structural parser answers for it
    triage_keywords,    \* analyze_pdf: triage_keywords
    todo,               \* keywords the loop of line 272 has not visited yet
    carved_content,     \* analyze_pdf: carved_content  (objnum -> list of <<keyword, text>>)
    obj_extract_triage, \* analyze_pdf: obj_extract_triage
    jbig_objs,          \* analyze_pdf: jbig_objs
    queried,            \* history: the object ids sent to the parser in object queries
    searched,           \* history: the keywords sent to the parser in search queries
    seen_objs,          \* history: object numbers of the reports the parser returned
    raised,             \* TRUE once an exception has left analyze_pdf
    all_errors,         \* analyze_pdf: all_errors
    log,                \* self.log.error: the exceptions get_pdf_parser caught
    returned,           \* history: the warnings PDFiD and the parser returned in this run
    fallbacks,          \* history: <<original object, reference>> for each run of lines 407-409
    obj_to_extract,     \* analyze_pdf: obj_to_extract of line 539
    config,             \* service configuration: ADDITIONAL_KEYS and HEURISTICS
    get_malform,        \* analyze_pdf: get_malform
    objstms,            \* analyze_pdf: objstms
    run_pdfparse,       \* analyze_pdf: run_pdfparse
    pdfidres,           \* the plugin lines attached to "PDFID Results" with their heuristic
    pending,            \* carved entries the loop of line 444 has not visited yet
    carved_extracted_shas, \* analyze_pdf: carved_extracted_shas
    subres,             \* every "Hits for Keyword" section built at line 447, in order
    show_content_of_interest, \* analyze_pdf: show_content_of_interest
    pdf_parserres,      \* titles of the subsections of "PDF Parser Results"
    files,              \* the working directory: file name -> bytes written
    extracted,          \* the request.add_extracted calls, in order
    sample,             \* execute: the submitted file with its object streams
    path,               \* the file analyze_pdf is run on: <<"main">> or a file of write_objstm
    contains_objstms,   \* execute: contains_objstms
    objstm_parts,       \* analyze_objstm: the reports the element query returned
    max_objstm,         \* analyze_objstm: the "max_objstm" option sent to the parser
    objstm_extracted,   \* analyze_objstm: objstm_extracted
    osf_todo,           \* files the loop of line 747 has not visited yet
    wcalls,             \* history: the calls of write_objstm and what they returned
    objstm_on,          \* history: the files analyze_objstm was called for
    passes,             \* history: the analyze_pdf passes that returned to execute
    result,             \* request.result: the titles of its sections
    execute_errors,     \* execute: all_errors
    erres,              \* execute: the lines of the section "Errors Analyzing PDF"
    wstream,            \* write_objstm: stream, byte by byte
    obj_idx,            \* write_objstm: obj_idx
    found,              \* write_objstm: what is left of the list re.findall returned
    given,              \* history: the bytes the parser dumped
    written             \* history: the bytes written between header and trailer, per call

---------------------------------------------------------------------------
(* Bounds *)

\* the object numbers of the sample, in the order the parser reports them
ObjOrder == <<"1", "2">>

ObjNums == { ObjOrder[i] : i \in 1..Len(ObjOrder) }

---------------------------------------------------------------------------
(* Strings as token sequences *)

\* the line break, a token of its own
LF == "\n"

RECURSIVE Flat(_)
\* the lines of a report joined by line breaks: the report as one string
Flat(p) ==
    IF p = <<>> THEN <<>>
    ELSE IF Len(p) = 1 THEN p[1]
    ELSE p[1] \o <<LF>> \o Flat(Tail(p))

RECURSIVE Strip(_)
\* s.strip(): no white space at either end
Strip(s) ==
    IF s = <<>> THEN <<>>
    ELSE IF s[1] = LF THEN Strip(Tail(s))
    ELSE IF s[Len(s)] = LF THEN Strip(SubSeq(s, 1, Len(s) - 1))
    ELSE s

\* t in s
Has(s, t) == \E i \in 1..Len(s) : s[i] = t

\* s.replace(t, '')
RECURSIVE Without(_, _)
Without(s, t) ==
    IF s = <<>> THEN <<>>
    ELSE IF Head(s) = t THEN Without(Tail(s), t)
    ELSE <<Head(s)>> \o Without(Tail(s), t)

\* index of the first occurrence of t in s (0 when absent)
FirstIdx(s, t) ==
    IF Has(s, t) THEN CHOOSE i \in 1..Len(s) : s[i] = t /\ \A j \in 1..(i-1) : s[j] # t
    ELSE 0

\* s.split(t, 1)[1], defined when t occurs in s
AfterFirst(s, t) == SubSeq(s, FirstIdx(s, t) + 1, Len(s))

\* s is a contiguous slice of t
IsSlice(s, t) ==
    \E i \in 1..(Len(t) + 1) : \E j \in (i - 1)..Len(t) : s = SubSeq(t, i, j)

\* "/<keyword>"
KeyTok(k) == "/" \o k

\* "<n> 0 R": an indirect reference
RefTok(n) == n \o " 0 R"

IsRefTok(t) == \E n \in ObjNums : t = RefTok(n)

RefObj(t) == CHOOSE n \in ObjNums : t = RefTok(n)


---------------------------------------------------------------------------
(* Parser reports *)

NL(p) == Len(p)

\* p.split("\n", i-1)[i-1]: line i and everything after it (needs NL(p) >= i)
Rest(p, i) == Flat(SubSeq(p, i, Len(p)))

\* p.startswith("trailer:")
IsTrailer(p) == p[1] # <<>> /\ p[1][1] = "trailer:"

\* p.split("\n", 1)[0].split(" ")[1] raises IndexError unless the header has two words
HasObjNum(p) == Len(p[1]) >= 2

ObjNum(p) == p[1][2]

\* p.split("\n", 4)[3] == "Contains stream" (needs NL(p) >= 4)
Line4IsStream(p) == p[4] = <<"Contains stream">>

\* "Contains stream" in p
ContainsStream(p) == Has(Flat(p), "Contains stream")

\* x.split("\n", 3)[2].replace('Referencing:', '').strip().split(", ")
\* (needs NL(p) >= 3); an empty line gives [''], never []
SplitRefs(p) ==
    LET l == Without(p[3], "Referencing:")
    IN  IF l = <<>> THEN << <<>> >>
        ELSE IF \A i \in 1..Len(l) : IsRefTok(l[i]) THEN [i \in 1..Len(l) |-> <<l[i]>>]
        ELSE <<l>>

\* sub_p.split("\n", 2)[1].replace('Type:', '').strip().replace("/", "") == keyword
TypeIs(p, keyword) == Without(p[2], "Type:") = <<KeyTok(keyword)>>

\* c.split(" ", 1)[0]: the first word of a string
FirstWord(c) ==
    IF c = <<>> THEN ""
    ELSE IF IsRefTok(c[1]) THEN RefObj(c[1])
    ELSE c[1]

\* tokens that begin with "/"
Names == { "/S", "/FitH", "/Filter", "/Action", "/Root", "/JavaScript", "/JS",
           "/OpenAction", "/JBIG2Decode", "/URI", "/AA", "/ObjStm" }

\* s.split("/", 1)[0]: the tokens before the first name
RECURSIVE BeforeName(_)
BeforeName(s) ==
    IF s = <<>> \/ Head(s) \in Names THEN <<>>
    ELSE <<Head(s)>> \o BeforeName(Tail(s))

\* re.findall("[0-9]* [0-9]* R", s)
RECURSIVE FindRefs(_)
FindRefs(s) ==
    IF s = <<>> THEN <<>>
    ELSE IF IsRefTok(Head(s)) THEN << <<Head(s)>> >> \o FindRefs(Tail(s))
    ELSE FindRefs(Tail(s))

---------------------------------------------------------------------------
(* The structural parser (pdf_parser.PDFParserMain), as analyze_pdf uses it. *)
(* doc.objs[n] is the report of object n (<<>> when the sample has no such   *)
(* object), doc.trailer the trailer report (<<>> when none), doc.details[n]  *)
(* the 'obj_details' text of object n, doc.fail the queries that make        *)
(* PDFiDMain or PDFParserMain raise, doc.warn the queries that return a      *)
(* warning, doc.errors_as the type of the errors PDFParserMain returns       *)
(* ("set" or "list": pdf_parser.py decides, line 404 calls errors.add).      *)

NoReport == <<>>

\* a non-fatal warning string PDFiDMain or PDFParserMain returns for a query;
\* d.warn is the set of queries of the sample that come back with one
Warn(d, query) == IF query \in d.warn THEN { <<"warning", query>> } ELSE {}

\* lines 53-56: the exception get_pdf_parser catches goes to self.log.error,
\* the result is None and the errors are []; d.fail is the set of queries of
\* the sample that make PDFParserMain raise
Caught(d, query) == IF query \in d.fail THEN { <<"exception", query>> } ELSE {}

\* the name of an object query
ObjectQuery(ref_obj) == "object " \o ref_obj

\* the reports of the sample, objects in order and the trailer last
AllReports(d) ==
    LET RECURSIVE Upto(_)
        Upto(i) == IF i = 0 THEN <<>>
                   ELSE Upto(i - 1) \o (IF d.objs[ObjOrder[i]] # NoReport
                                         THEN <<d.objs[ObjOrder[i]]>> ELSE <<>>)
    IN  Upto(Len(ObjOrder)) \o (IF d.trailer # NoReport THEN <<d.trailer>> ELSE <<>>)

\* options = {"search": keyword}: the reports in which the keyword occurs
ParserSearch(d, keyword) ==
    SelectSeq(AllReports(d), LAMBDA r : Has(Flat(r), KeyTok(keyword)))

\* get_pdf_parser with options = {"object": ref_obj, "get_object_detail": True}:
\* None when PDFParserMain raised (lines 53-56), else the reports of that object
ParserObject(d, ref_obj) ==
    IF ObjectQuery(ref_obj) \in d.fail
    THEN [ok |-> FALSE, parts |-> <<>>, obj_details |-> <<>>, err |-> {}]
    ELSE IF ref_obj \in ObjNums /\ d.objs[ref_obj] # NoReport
         THEN [ok |-> TRUE, parts |-> <<d.objs[ref_obj]>>, obj_details |-> d.details[ref_obj],
               err |-> Warn(d, ObjectQuery(ref_obj))]
         ELSE [ok |-> TRUE, parts |-> <<>>, obj_details |-> <<>>,
               err |-> Warn(d, ObjectQuery(ref_obj))]

\* the object numbers the header lines of a batch of reports carry
ReportNums(parts) ==
    { parts[i][1][2] : i \in { j \in 1..Len(parts) :
                                 Len(parts[j][1]) >= 2 /\ parts[j][1][1] = "obj" } }

---------------------------------------------------------------------------
(* analyze_pdf, lines 283-355: from a report to its content list *)

\* lines 304-306, 309-311: p.split("\n", 3)[3], and p itself on IndexError
FromLine4(p) == IF NL(p) >= 4 THEN Rest(p, 4) ELSE Flat(p)

\* lines 287-321: content and references of report p for a keyword
ContentOf(p, keyword) ==
    IF IsTrailer(p) THEN
        IF Has(Flat(p), KeyTok(keyword)) THEN
            LET c == Strip(BeforeName(Without(AfterFirst(Flat(p), KeyTok(keyword)), ">>++>>")))
            IN  [content |-> c, references |-> FindRefs(c)]
        ELSE [content |-> <<>>, references |-> <<>>]
    ELSE IF Has(Flat(p), "Referencing:") THEN
        LET c0 == IF Has(Flat(p), ">>++>>")
                  THEN IF Has(Flat(p), KeyTok(keyword))
                       THEN Strip(Without(AfterFirst(Flat(p), KeyTok(keyword)), ">>++>>"))
                       ELSE FromLine4(p)
                  ELSE FromLine4(p)
            c  == IF c0 # <<>> /\ c0[1] = KeyTok(keyword) THEN Tail(c0) ELSE c0
        IN  [content |-> c,
             references |-> IF NL(p) >= 3 THEN SplitRefs(p) ELSE <<>>]
    ELSE [content |-> <<>>, references |-> <<>>]

\* words the "with instructions" pattern accepts after the reference
InstWords == Names \cup {"null"}

\* line 343: the text starts with a bracketed list of references
ListEnd(s) ==
    IF s # <<>> /\ s[1] = "[" /\ \E j \in 2..Len(s) : s[j] = "]" /\ \A i \in 2..(j-1) : IsRefTok(s[i])
    THEN CHOOSE j \in 2..Len(s) : s[j] = "]" /\ \A i \in 2..(j-1) : IsRefTok(s[i])
    ELSE 0

\* line 349: the text starts with "[<ref> <instructions>]"
InstEnd(s) ==
    IF Len(s) >= 4 /\ s[1] = "[" /\ IsRefTok(s[2])
       /\ \E j \in 4..Len(s) : s[j] = "]" /\ \A i \in 3..(j-1) : s[i] \in InstWords
    THEN CHOOSE j \in 4..Len(s) : s[j] = "]" /\ \A i \in 3..(j-1) : s[i] \in InstWords
    ELSE 0

\* lines 334-355: the list the loop of line 356 runs over; drop = 'continue' of line 339
ContentList(content, references) ==
    IF content = <<>> THEN
        IF Len(references) > 0 THEN [drop |-> FALSE, list |-> references]
        ELSE [drop |-> TRUE, list |-> <<>>]
    ELSE
        LET s == IF content[1] = "s" THEN Tail(content) ELSE content
            le == ListEnd(s)
            ie == InstEnd(s)
        IN  IF le > 0 THEN
                [drop |-> FALSE,
                 list |-> IF le = 2 THEN << <<>> >> ELSE [i \in 1..(le - 2) |-> <<s[i + 1]>>]]
            ELSE IF ie > 0 THEN [drop |-> FALSE, list |-> << <<s[2]>> >>]
            ELSE [drop |-> FALSE, list |-> <<content>>]

---------------------------------------------------------------------------
(* analyze_pdf, lines 356-425: the accumulators and the per-token work.     *)
(* st = [carved, extract, jbig, queried, searched, seen, raised] are         *)
(* carved_content, obj_extract_triage, jbig_objs, the object ids and the    *)
(* keywords sent to the parser, the object numbers of the reports received, *)
(* and whether an exception has escaped; st.errors is all_errors, st.kerrors *)
(* the variable 'errors' of the keyword at hand, st.log, st.returned and    *)
(* st.fallbacks are log, returned and fallbacks.                            *)

EmptyCarved == [k \in {} |-> <<>>]

\* lines 394-399 and 422-425: append {keyword: text} to carved_content[objnum]
CarveAdd(carved, objnum, keyword, text) ==
    IF objnum \in DOMAIN carved
    THEN [carved EXCEPT ![objnum] = Append(@, <<keyword, text>>)]
    ELSE [k \in DOMAIN carved \cup {objnum} |->
             IF k = objnum THEN << <<keyword, text>> >> ELSE carved[k]]

\* lines 371-401: one report of the sub-query; exc = an exception reached line 405
SubPart(st, keyword, sub_p, obj_details) ==
    IF NL(sub_p) < 3 THEN [st |-> st, exc |-> TRUE]
    ELSE IF ContainsStream(sub_p) THEN
        [st  |-> IF HasObjNum(sub_p)
                 THEN [st EXCEPT !.extract = @ \cup {ObjNum(sub_p)}] ELSE st,
         exc |-> FALSE]
    ELSE IF SplitRefs(sub_p)[1] # <<>> /\ TypeIs(sub_p, keyword) THEN
        [st  |-> [st EXCEPT !.extract =
                     @ \cup { FirstWord(SplitRefs(sub_p)[i]) : i \in 1..Len(SplitRefs(sub_p)) }],
         exc |-> FALSE]
    ELSE IF obj_details # <<>> THEN
        [st  |-> IF HasObjNum(sub_p)
                 THEN [st EXCEPT !.carved = CarveAdd(@, ObjNum(sub_p), keyword, obj_details)]
                 ELSE st,
         exc |-> FALSE]
    ELSE [st |-> st, exc |-> FALSE]

\* line 370: for sub_p in pdf_parser_subresult['parts'], stopping at an exception
RECURSIVE SubParts(_, _, _, _)
SubParts(st, keyword, parts, obj_details) ==
    IF parts = <<>> THEN [st |-> st, exc |-> FALSE]
    ELSE LET r == SubPart(st, keyword, Head(parts), obj_details)
         IN  IF r.exc THEN r ELSE SubParts(r.st, keyword, Tail(parts), obj_details)

\* lines 405-411: "just extract the original object for examination"
Fallback(st, p, ref_obj) ==
    IF HasObjNum(p)
    THEN [st EXCEPT !.extract = @ \cup {ObjNum(p)},
                    !.fallbacks = @ \cup { <<ObjNum(p), ref_obj>> }]
    ELSE st

\* lines 361-411: the token is a reference, resolve it with one object query
Resolve(st, keyword, p, c, d) ==
    LET ref_obj == FirstWord(c)
        res     == ParserObject(d, ref_obj)
        st1     == [st EXCEPT !.queried = @ \cup {ref_obj},
                              !.seen = @ \cup ReportNums(res.parts),
                              !.log = @ \cup Caught(d, ObjectQuery(ref_obj)),
                              !.returned = @ \cup res.err]
        r       == SubParts(st1, keyword, res.parts, res.obj_details)
    IN  IF ~res.ok THEN st1
        ELSE IF r.exc THEN Fallback(r.st, p, ref_obj)
        \* lines 403-404: errors.add(e) for the warnings of the sub-query; a list
        \* has no add, and the AttributeError is caught at line 405
        ELSE IF res.err # {} /\ d.errors_as = "list" THEN Fallback(r.st, p, ref_obj)
        ELSE [r.st EXCEPT !.kerrors = @ \cup res.err]

\* lines 413-425: the token is literal text
Literal(st, keyword, p, c) ==
    IF IsTrailer(p) THEN st
    ELSE IF ~HasObjNum(p) \/ NL(p) < 4 THEN [st EXCEPT !.raised = TRUE]
    ELSE IF Line4IsStream(p) THEN [st EXCEPT !.extract = @ \cup {ObjNum(p)}]
    ELSE [st EXCEPT !.carved = CarveAdd(@, ObjNum(p), keyword, c)]

\* line 358: "/JS" in c[0:5]
JSInFirst5(c) ==
    c # <<>> /\ (c[1] = "/JS" \/ (Len(c) >= 2 /\ c[2] = "/JS" /\ Len(c[1]) <= 1))

\* line 358: the JavaScript token is left to the 'JS' keyword
SkipForJS(tk, keyword, c) ==
    "JS" \in tk /\ keyword = "JavaScript" /\ JSInFirst5(c)

\* line 360: c in references or re.match("[0-9]* [0-9]* R", c)
LooksLikeRef(c, references) ==
    \/ \E i \in 1..Len(references) : references[i] = c
    \/ c # <<>> /\ IsRefTok(c[1])

\* lines 357-425: one turn of the loop of line 356
Token(st, tk, keyword, p, c, references, d) ==
    IF SkipForJS(tk, keyword, c) THEN st
    ELSE IF LooksLikeRef(c, references) THEN Resolve(st, keyword, p, c, d)
    ELSE Literal(st, keyword, p, c)

RECURSIVE Tokens(_, _, _, _, _, _, _)
Tokens(st, tk, keyword, p, list, references, d) ==
    IF list = <<>> \/ st.raised THEN st
    ELSE Tokens(Token(st, tk, keyword, p, Head(list), references, d),
                tk, keyword, p, Tail(list), references, d)

\* line 323: keyword == "JBIG2Decode" and "/Filter" in p and "Contains stream" in p
IsJBIG2Stream(keyword, p) ==
    keyword = "JBIG2Decode" /\ Has(Flat(p), "/Filter") /\ ContainsStream(p)

\* lines 324-332: JBIG2Decode streams are noted, and queued only in a deep scan
JBIG2(st, p, deep) ==
    IF HasObjNum(p)
    THEN [st EXCEPT !.extract = IF deep THEN @ \cup {ObjNum(p)} ELSE @,
                    !.jbig = @ \cup {ObjNum(p)}]
    ELSE st

\* lines 284-425: one report of a keyword search
Part(st, tk, keyword, p, d, deep) ==
    LET cr == ContentOf(p, keyword)
        cl == ContentList(cr.content, cr.references)
    IN  IF IsJBIG2Stream(keyword, p) THEN JBIG2(st, p, deep)
        ELSE IF cl.drop THEN st
        ELSE Tokens(st, tk, keyword, p, cl.list, cr.references, d)

RECURSIVE Parts(_, _, _, _, _, _)
Parts(st, tk, keyword, parts, d, deep) ==
    IF parts = <<>> \/ st.raised THEN st
    ELSE Parts(Part(st, tk, keyword, Head(parts), d, deep), tk, keyword, Tail(parts), d, deep)

---------------------------------------------------------------------------
(* PDFiD and its Triage plugin (pdfid/plugin_triage.py)                      *)
(*                                                                           *)
(* d.present is the set of names PDFiD counts at least once in the sample.   *)
(* A line of plugin output is modelled by the set of names and words the     *)
(* tests of lines 165-229 look for in it.                                    *)

\* oPDFiD.keywords[name].count
Count(d, name) == IF name \in d.present THEN 1 ELSE 0

\* the names cPDFiDTriage.Score looks at, in the order it looks at them
Scored == <<"/JS", "/JavaScript", "/JBIG2Decode", "/Colors > 2^24", "/AA", "/OpenAction",
            "/Launch", "/AcroForm", "/RichMedia", "/XFA", "/Encrypt", "/Annot", "/ObjStm",
            "/URI">>

\* cPDFiDTriage.Score: self.hits
Hits(d) == { Scored[i] : i \in { j \in 1..Len(Scored) : Count(d, Scored[j]) > 0 } }

\* what one name adds to the score on its own
Points(name) ==
    CASE name \in {"/JBIG2Decode", "/Colors > 2^24"} -> 50
      [] name \in {"/AcroForm", "/RichMedia", "/XFA", "/Encrypt"} -> 25
      [] name \in {"/Annot", "/ObjStm", "/URI"} -> 1
      [] OTHER -> 0

\* cPDFiDTriage.Score: score
Score(d) ==
    LET RECURSIVE Sum(_)
        Sum(i) == IF i = 0 THEN 0
                  ELSE Sum(i - 1) + (IF Count(d, Scored[i]) > 0 THEN Points(Scored[i]) ELSE 0)
    IN  (IF Count(d, "/JavaScript") > 0 \/ Count(d, "/JS") > 0 THEN 100 ELSE 0)
        + (IF Count(d, "/AA") > 0 \/ Count(d, "/OpenAction") > 0 \/ Count(d, "/Launch") > 0
           THEN 50 ELSE 0)
        + Sum(Len(Scored))

\* instruct.get(h): what the tests of analyze_pdf can find in the line of hit h
Instruct(h) == IF h \in {"/AA", "/OpenAction"} THEN {h, "page"} ELSE {h}

\* the orders in which "for h in hits" may visit a set
Orders(S) ==
    { o \in [1..Cardinality(S) -> S] : \A i, j \in 1..Cardinality(S) : o[i] = o[j] => i = j }

\* cPDFiDTriage.Instructions: the lines of the message, None (<<>>) for score 0
Instructions(score, order) ==
    IF score > 0 THEN << {} >> \o [i \in 1..Len(order) |-> Instruct(order[i])] ELSE <<>>

\* PDFiDMain: the "Flags" list, one entry per name counted at least once
Flags(d) == d.present

\* PDFiDMain: the "Plugin" list, one <<pl_name, pl_text>> per plugin of heur
Plugin(d, heur, order) ==
    (IF "plugin_triage" \in heur THEN << <<"Triage", Instructions(Score(d), order)>> >> ELSE <<>>)
    \o (IF "plugin_suspicious_properties" \in heur
        THEN << <<"Suspicious Properties", d.suspicious>> >> ELSE <<>>)

---------------------------------------------------------------------------
(* analyze_pdf, lines 124-233: the flags and the plugin lines *)

\* flist[0].replace("/", "", 1)
Unslash(name) == CHOOSE k \in { "JS", "JavaScript", "JBIG2Decode", "Colors > 2^24", "AA",
                                "OpenAction", "Launch", "AcroForm", "RichMedia", "XFA",
                                "Encrypt", "Annot", "ObjStm", "URI", "GoToE", "GoToR" } :
                    KeyTok(k) = name

\* FlagKeywords without the flags: every additional keyword is added
FlagKeywords_Unflagged(flags, additional_keywords) ==
    { Unslash(f) : f \in additional_keywords }

\* lines 127-136: the keywords the flags add
FlagKeywords(flags, additional_keywords) ==
    { Unslash(f) : f \in flags \cap additional_keywords }

\* the elif chain of lines 165-229: <<what is looked for, keyword added, heuristic>>
Chain ==
    << <<"/JavaScript", "JavaScript", 19>>, <<"/JS", "JS", 19>>,
       <<"/JBIG2Decode", "JBIG2Decode", 3>>, <<"/Colors > 2^24", "Colors > 2^24", 20>>,
       <<"/AA", "AA", 1>>, <<"/Launch", "Launch", 1>>, <<"/OpenAction", "OpenAction", 1>>,
       <<"/GoToE", "GoToE", 21>>, <<"/GoToR", "GoToR", 22>>, <<"/Encrypt", "Encrypt", 11>>,
       <<"/AcroForm", "AcroForm", 4>>, <<"/RichMedia", "RichMedia", 5>>, <<"/XFA", "XFA", 23>>,
       <<"/Annot", "Annot", 25>>, <<"/ObjStm", "ObjStm", 7>>, <<"/URI", "URI", 24>>,
       <<"eof2", "", 2>>, <<"eof5", "", 17>>, <<"page", "", 26>>, <<"entropy", "", 12>>,
       <<"obj/endobj", "", 13>>, <<"stream/endstream", "", 14>> >>

\* the first branch of the chain a line takes, 0 when it takes none
Branch(line) ==
    LET taken == { i \in 1..Len(Chain) : Chain[i][1] \in line }
    IN  IF taken = {} THEN 0 ELSE CHOOSE i \in taken : \A j \in taken : i <= j

\* PluginLines without javascript_found: every javascript line gets heuristic 19
PluginLines_NoFlag(pl_name, lines) ==
    LET RECURSIVE Walk(_, _, _)
        Walk(i, kws, out) ==
            IF i > Len(lines) THEN [keywords |-> kws, lines |-> out]
            ELSE LET b == Branch(lines[i])
                 IN  IF b = 0 THEN Walk(i + 1, kws, out)
                     ELSE Walk(i + 1, kws \cup ({Chain[b][2]} \ {""}),
                               out \cup { <<pl_name, lines[i], Chain[b][3]>> })
    IN  Walk(1, {}, {})

\* lines 161-233 for one plugin: the keywords added and the lines attached
\* (<<plugin, line, heuristic>>), heuristic 19 going to the first javascript line
PluginLines(pl_name, lines) ==
    LET RECURSIVE Walk(_, _, _, _)
        Walk(i, kws, out, javascript_found) ==
            IF i > Len(lines) THEN [keywords |-> kws, lines |-> out]
            ELSE LET b == Branch(lines[i])
                 IN  IF b = 0 THEN Walk(i + 1, kws, out, javascript_found)
                     ELSE IF b <= 2
                          THEN Walk(i + 1, kws \cup {Chain[b][2]},
                                    IF javascript_found THEN out
                                    ELSE out \cup { <<pl_name, lines[i], 19>> },
                                    TRUE)
                          ELSE Walk(i + 1, kws \cup ({Chain[b][2]} \ {""}),
                                    out \cup { <<pl_name, lines[i], Chain[b][3]>> },
                                    javascript_found)
    IN  Walk(1, {}, {}, FALSE)

\* lines 144-233: all plugins
Plugins(plugin) ==
    LET RECURSIVE All(_)
        All(i) ==
            IF i = 0 THEN [keywords |-> {}, lines |-> {}]
            ELSE LET before == All(i - 1)
                     this == IF plugin[i][1] \in {"Triage", "Suspicious Properties"}
                                /\ plugin[i][2] # <<>>
                             THEN PluginLines(plugin[i][1], plugin[i][2])
                             ELSE [keywords |-> {}, lines |-> {}]
                 IN  [keywords |-> before.keywords \cup this.keywords,
                      lines |-> before.lines \cup this.lines]
    IN  All(Len(plugin))

---------------------------------------------------------------------------
(* analyze_pdf, lines 430-487: what becomes of the carved content *)

\* line 452: carved text of fewer characters than this is shown in the result
CarveLimit == 500

\* the long texts of the samples
LongTexts == { "(496 x a)", "(497 x a)", "(495 x a, 1 x e-acute)", "(496 x a, 1 x e-acute)" }

\* the number of characters of a token
Chars(t) ==
    CASE t = "(496 x a)" -> 496
      [] t = "(497 x a)" -> 497
      [] t = "(495 x a, 1 x e-acute)" -> 496
      [] t = "(496 x a, 1 x e-acute)" -> 497
      [] OTHER -> Len(t)

\* the number of its characters that UTF-8 encodes in two bytes
TwoByte(t) ==
    IF t \in {"(495 x a, 1 x e-acute)", "(496 x a, 1 x e-acute)"} THEN 1 ELSE 0

\* len(con): the characters of the tokens and one separator between two tokens
StrLen(con) ==
    LET RECURSIVE Sum(_)
        Sum(i) == IF i = 0 THEN 0 ELSE Sum(i - 1) + Chars(con[i])
    IN  Sum(Len(con)) + (IF Len(con) > 0 THEN Len(con) - 1 ELSE 0)

\* con.encode(): UTF-8, the text with its length in bytes
Encode(con) ==
    LET RECURSIVE Extra(_)
        Extra(i) == IF i = 0 THEN 0 ELSE Extra(i - 1) + TwoByte(con[i])
    IN  [text |-> con, len |-> StrLen(con) + Extra(Len(con))]

\* hashlib.sha256(con_bytes).hexdigest(): distinct bytes have distinct digests
Sha256(con_bytes) == <<"sha256", con_bytes.text>>

\* "carved_content_obj_{}_{}".format(k, crv_sha[0:7])
CarvedName(k, crv_sha) == <<"carved_content_obj_", k, crv_sha>>

\* sorted(carved_content.items()) and the two loops inside it, flattened:
\* <<k, keyw, con>> in the order of lines 444-446
CarvedEntries(carved) ==
    LET RECURSIVE Upto(_)
        Upto(i) ==
            IF i = 0 THEN <<>>
            ELSE Upto(i - 1) \o
                 (IF ObjOrder[i] \in DOMAIN carved
                  THEN [j \in 1..Len(carved[ObjOrder[i]]) |->
                          <<ObjOrder[i], carved[ObjOrder[i]][j][1], carved[ObjOrder[i]][j][2]>>]
                  ELSE <<>>)
    IN  Upto(Len(ObjOrder))

\* Disposition without line 484: the digest of a written file is not kept
Disposition_NoShaAdd(k, keyw, con, shas, st_value) ==
    LET con_bytes == Encode(con)
        crv_sha == Sha256(con_bytes)
        f_name == CarvedName(k, crv_sha)
    IN  IF StrLen(con) < CarveLimit
        THEN [subres |-> [obj |-> k, keyw |-> keyw, body |-> "inline", con |-> con,
                          ioc |-> st_value, attached |-> st_value],
              write |-> <<>>, shas |-> shas]
        ELSE IF crv_sha \notin shas
        THEN [subres |-> [obj |-> k, keyw |-> keyw, body |-> "artifact", con |-> con,
                          ioc |-> FALSE, attached |-> TRUE],
              write |-> << <<f_name, con_bytes>> >>, shas |-> shas]
        ELSE [subres |-> [obj |-> k, keyw |-> keyw, body |-> "none", con |-> con,
                          ioc |-> FALSE, attached |-> FALSE],
              write |-> <<>>, shas |-> shas]

\* Disposition without the test of line 459: the inline section is always attached
Disposition_AlwaysAttached(k, keyw, con, shas, st_value) ==
    LET con_bytes == Encode(con)
        crv_sha == Sha256(con_bytes)
        f_name == CarvedName(k, crv_sha)
    IN  IF StrLen(con) < CarveLimit
        THEN [subres |-> [obj |-> k, keyw |-> keyw, body |-> "inline", con |-> con,
                          ioc |-> st_value, attached |-> TRUE],
              write |-> <<>>, shas |-> shas]
        ELSE IF crv_sha \notin shas
        THEN [subres |-> [obj |-> k, keyw |-> keyw, body |-> "artifact", con |-> con,
                          ioc |-> FALSE, attached |-> TRUE],
              write |-> << <<f_name, con_bytes>> >>, shas |-> shas \cup {crv_sha}]
        ELSE [subres |-> [obj |-> k, keyw |-> keyw, body |-> "none", con |-> con,
                          ioc |-> FALSE, attached |-> FALSE],
              write |-> <<>>, shas |-> shas]

\* lines 447-484 for one carved entry; st_value tells whether ioc_match found
\* anything.  The section built (ioc: what the matcher found, attached: whether
\* the section was added to "Content of Interest"), the file written and
\* registered, and the digests.
Disposition(k, keyw, con, shas, st_value) ==
    LET con_bytes == Encode(con)
        crv_sha == Sha256(con_bytes)
        f_name == CarvedName(k, crv_sha)
    IN  IF StrLen(con) < CarveLimit
        THEN [subres |-> [obj |-> k, keyw |-> keyw, body |-> "inline", con |-> con,
                          ioc |-> st_value, attached |-> st_value],
              write |-> <<>>, shas |-> shas]
        ELSE IF crv_sha \notin shas
        THEN [subres |-> [obj |-> k, keyw |-> keyw, body |-> "artifact", con |-> con,
                          ioc |-> FALSE, attached |-> TRUE],
              write |-> << <<f_name, con_bytes>> >>, shas |-> shas \cup {crv_sha}]
        ELSE [subres |-> [obj |-> k, keyw |-> keyw, body |-> "none", con |-> con,
                          ioc |-> FALSE, attached |-> FALSE],
              write |-> <<>>, shas |-> shas]

\* the sections under "Content of Interest"
carres == SelectSeq(subres, LAMBDA s : s.attached)

---------------------------------------------------------------------------
(* analyze_pdf, lines 489-601: the objects handed to the parser for extraction *)

\* "Type: /EmbeddedFile" in p
IsEmbeddedFile(p) == IsSlice(<<"Type:", "/EmbeddedFile">>, Flat(p))

\* lines 511-536: the objects the element query reports as embedded files,
\* none when the query gave no result
EmbedExtracted(d) ==
    IF "elements" \in d.fail THEN {}
    ELSE { ObjNum(r) : r \in { d.objs[n] : n \in { m \in ObjNums : d.objs[m] # NoReport
                                                      /\ IsEmbeddedFile(d.objs[m]) } } }

\* options = {"object": objs, "dump": prefix}: the parser writes the stream of
\* every requested object that has one, and lists the files as 'embedded'
ParserDump(d, objs, prefix) ==
    SelectSeq([i \in 1..Len(ObjOrder) |-> <<prefix, ObjOrder[i]>>],
              LAMBDA f : f[2] \in objs /\ d.objs[f[2]] # NoReport
                         /\ ContainsStream(d.objs[f[2]]))

\* line 539
ObjToExtract(d, extract, jbig) == (extract \ EmbedExtracted(d)) \ jbig

\* the bytes the parser dumps for an object
Dumped(f) == [text |-> <<"stream of", f[2]>>, len |-> 0]

---------------------------------------------------------------------------
(* write_objstm and analyze_objstm                                           *)
(*                                                                           *)
(* s.containers lists the /ObjStm objects of the sample in the order of      *)
(* sorted(parts): c.report is the report of the object, c.fails tells that   *)
(* the query for it makes PDFParserMain raise, c.stream is the decompressed  *)
(* stream the parser dumps (<<>> when it dumps nothing) and c.nested is the  *)
(* document PDFiD and the parser see in the file written from it.            *)
(* A stream is a sequence of tokens: text without '<', or a dictionary on a  *)
(* line of its own with the line feed that ends it.                          *)

\* line 691, line 693
MaxObstDeep == 100

MaxObstShallow == 1

\* line 724: the default of MAX_PDF_SIZE
MaxPdfSize == 3000000

\* lines 621-622
Header == <<"%PDF-1.6\n", "%Fake header created by AL PDFID service.\n">>

Trailer == <<"%%EOF\n">>

\* the dictionaries of the streams, each with the line feed that ends its line
Labels == { "<</A 1>>\n", "<</B 2>>\n" }

\* b"".join(lab.rsplit(b'\n', 1))
JoinRsplit(lab) ==
    CASE lab = "<</A 1>>\n" -> "<</A 1>>"
      [] lab = "<</B 2>>\n" -> "<</B 2>>"
      [] OTHER -> lab

\* stream.replace(old, new): every occurrence of the token old
Replace(stream, old, new) ==
    LET RECURSIVE Upto(_)
        Upto(i) == IF i = 0 THEN <<>>
                   ELSE Upto(i - 1) \o (IF stream[i] = old THEN new ELSE <<stream[i]>>)
    IN  Upto(Len(stream))

\* lines 647-649: what comes before the first '<' is made a comment
Comment(stream) ==
    IF stream = <<>> \/ stream[1] \in Labels THEN stream
    ELSE Replace(stream, stream[1], <<"%", stream[1], "\n">>)

\* lines 650-655: the dictionaries re.findall gives, in order, are given object
\* headers and footers, each by a replace over the whole stream
Wrap(stream) ==
    LET labs == SelectSeq(stream, LAMBDA t : t \in Labels)
        RECURSIVE Upto(_)
        Upto(i) == IF i = 0 THEN stream
                   ELSE Replace(Upto(i - 1), labs[i],
                                <<ToString(i) \o " 0 obj\r", JoinRsplit(labs[i]), "\rendobj\r">>)
    IN  Upto(Len(labs))

\* lines 645-670: the bytes written back to the dumped file.  The patterns of
\* lines 657 and 664 match nothing in a stream of comments and wrapped
\* dictionaries.
MockPdf(stream) == Header \o Wrap(Comment(stream)) \o Trailer

\* "Type: /ObjStm" in p
IsObjStm(p) == IsSlice(<<"Type:", "/ObjStm">>, Flat(p))

\* the containers of the sample that carry object number objstm
Versions(s, objstm) ==
    SelectSeq(s.containers, LAMBDA c : HasObjNum(c.report) /\ ObjNum(c.report) = objstm)

\* get_pdf_parser with options = {"object": objstm, "dump": objstm_path, "filter",
\* "raw"}: None when PDFParserMain raised, else the reports of the object and
\* the dumped stream of the first version that has one
ParserDumpRaw(s, objstm, objstm_path) ==
    LET vs == Versions(s, objstm)
        dumped == SelectSeq(vs, LAMBDA c : c.stream # <<>>)
    IN  IF \E i \in 1..Len(vs) : vs[i].fails
        THEN [ok |-> FALSE, parts |-> <<>>, embedded |-> <<>>, stream |-> <<>>]
        ELSE [ok |-> TRUE,
              parts |-> [i \in 1..Len(vs) |-> vs[i].report],
              embedded |-> IF dumped = <<>> THEN <<>> ELSE <<objstm_path>>,
              stream |-> IF dumped = <<>> THEN <<>> ELSE dumped[1].stream]

\* the working directory after a file has been written
Written(fs, f, bytes) == [g \in DOMAIN fs \cup {f} |-> IF g = f THEN bytes ELSE fs[g]]

\* write_objstm: ret is the file path (<<>> for None), raised tells that line
\* 636 raised IndexError
write_objstm(fs, s, objstm, objstm_path) ==
    LET q == ParserDumpRaw(s, objstm, objstm_path)
        fs1 == IF q.embedded = <<>> THEN fs ELSE Written(fs, objstm_path, q.stream)
        stream_present == \E i \in 1..Len(q.parts) : Line4IsStream(q.parts[i])
    IN  IF ~q.ok
        THEN [ret |-> <<>>, raised |-> FALSE, files |-> fs]
        ELSE IF \E i \in 1..Len(q.parts) : NL(q.parts[i]) < 4
        THEN [ret |-> <<>>, raised |-> TRUE, files |-> fs1]
        ELSE IF stream_present /\ q.embedded # <<>>
        THEN [ret |-> <<q.embedded[1]>>, raised |-> FALSE,
              files |-> Written(fs1, q.embedded[1], MockPdf(q.stream))]
        ELSE [ret |-> <<>>, raised |-> FALSE, files |-> fs1]

\* lines 708-718 for one report of the element query
ObjstmPart(st, s, p) ==
    IF st.raised \/ ~IsObjStm(p) THEN st
    ELSE IF ~HasObjNum(p) THEN [st EXCEPT !.raised = TRUE]
    ELSE IF ObjNum(p) \in st.objstm_extracted THEN st
    ELSE LET getobj == ObjNum(p)
             dump_file == <<"objstm_", getobj, st.idx>>
             w == write_objstm(st.files, s, getobj, dump_file)
         IN  [st EXCEPT !.idx = @ + 1,
                        !.files = w.files,
                        !.raised = w.raised,
                        !.wcalls = Append(@, [objstm |-> getobj, ret |-> w.ret,
                                              raised |-> w.raised]),
                        !.objstm_extracted = IF w.ret # <<>> THEN @ \cup {getobj} ELSE @,
                        !.obj_files = IF w.ret # <<>> THEN @ \cup {w.ret[1]} ELSE @]

\* lines 690-693
MaxObst(deep) == IF deep THEN MaxObstDeep ELSE MaxObstShallow

\* analyze_objstm with a cap of its own: only the first max_obst reports are visited
analyze_objstm_Capped(fs, s, parts, deep) ==
    LET RECURSIVE Upto(_)
        Upto(i) ==
            IF i = 0
            THEN [objstm_extracted |-> {}, obj_files |-> {}, idx |-> 0, files |-> fs,
                  wcalls |-> <<>>, raised |-> FALSE, max_obst |-> MaxObst(deep)]
            ELSE IF i > MaxObst(deep) THEN Upto(i - 1)
            ELSE ObjstmPart(Upto(i - 1), s, parts[i])
    IN  Upto(Len(parts))

\* lines 685-720: analyze_objstm on the reports the element query returned;
\* max_obst only goes to the parser, as an option of the query
analyze_objstm(fs, s, parts, deep) ==
    LET RECURSIVE Upto(_)
        Upto(i) ==
            IF i = 0
            THEN [objstm_extracted |-> {}, obj_files |-> {}, idx |-> 0, files |-> fs,
                  wcalls |-> <<>>, raised |-> FALSE, max_obst |-> MaxObst(deep)]
            ELSE ObjstmPart(Upto(i - 1), s, parts[i])
    IN  Upto(Len(parts))

\* options = {"elements": "i", "type": "/ObjStm", "max_objstm": max_obst}:
\* the reports of the first n /ObjStm objects
ParserObjStm(s, n) == [i \in 1..n |-> s.containers[i].report]

---------------------------------------------------------------------------
(* The samples the triage is run on *)

\* "obj <n> 0" / "Type: <typ>" / "Referencing: <refs>" / "Contains stream" or a
\* blank line / the object's content
Obj(n, typ, refs, stream, body) ==
    << <<"obj", n, "0">>, <<"Type:", typ>>, <<"Referencing:">> \o refs,
       IF stream THEN <<"Contains stream">> ELSE <<>>, body >>

\* contents of an object that carries triage keywords and refers to object o
HitBodies(o) ==
    { <<"<<", "/S", "/JavaScript", "/JS", "(code)", ">>">>,
      <<"<<", "/JS", "(code)", "/S", "/JavaScript", ">>">>,
      <<"<<", "/JavaScript", RefTok(o), "/JS", RefTok(o), ">>">>,
      <<"<<", "/Annot", "s", "[", RefTok(o), "]", "/JS", "(code)", ">>">>,
      <<"<<", "/Annot", "s", "[", "]", ">>">>,
      <<"<<", "/Annot", "[", RefTok(o), "/FitH", "null", "]", ">>">>,
      <<"<<", "/JS", RefTok(o), "/Annot">>,
      <<"<<", "/Filter", "/JBIG2Decode", ">>">> }

Marked(body, marker) == IF marker THEN body \o <<">>++>>">> ELSE body

\* reports that do not have the usual shape: no object number, too few lines
Malformed(n) ==
    { << <<"obj">>, <<"Type:", "/Action">>, <<"Referencing:">>, <<>>, <<"/JS", "(code)">> >>,
      << <<"obj", n, "0">>, <<"Type:", "/Action">>, <<"Referencing:", "/JS", "(code)">> >>,
      << <<"obj", n, "0">>, <<"/JS", "(code)">> >> }

HitReports(n, o) ==
    { Obj(n, typ, refs, stream, Marked(body, marker)) :
        typ \in {"/Action"}, refs \in {<<>>, <<RefTok(o)>>},
        stream \in BOOLEAN, marker \in BOOLEAN, body \in HitBodies(o) }
    \cup Malformed(n)

\* reports of an object that is only referred to
SubReports(n, o) ==
    { Obj(n, typ, refs, stream, <<"(text)">>) :
        typ \in {"/Action", "/Annot"}, refs \in {<<>>, <<RefTok(o)>>}, stream \in BOOLEAN }
    \cup { << <<"obj", n, "0">>, <<"Type:", "/Action">> >>, NoReport }

Trailers ==
    { NoReport,
      << <<"trailer:", "<<", "/Root", RefTok("1"), "/JS", RefTok("2"), ">>">> >>,
      << <<"trailer:">>, <<"<<", "/Root", RefTok("1"), "/JS", RefTok("2"), ">>">> >> }

\* the samples: an object with keyword hits, an object it may refer to, and
\* either no trailer report or a trailer that carries a keyword
TriageDocs ==
    { [objs |-> [n \in ObjNums |-> IF n = "1" THEN r1 ELSE r2],
       trailer |-> t,
       details |-> [n \in ObjNums |-> IF n = "1" THEN <<"(detail 1)">> ELSE det2],
       fail |-> f, warn |-> {}, errors_as |-> "set"] :
        r1 \in HitReports("1", "2"), r2 \in SubReports("2", "1"), t \in {NoReport},
        det2 \in {<<>>, <<"(detail 2)">>}, f \in {{}, {ObjectQuery("2")}} }
    \cup
    { [objs |-> [n \in ObjNums |-> IF n = "1" THEN NoReport ELSE r2],
       trailer |-> t,
       details |-> [n \in ObjNums |-> <<"(detail)">>],
       fail |-> {}, warn |-> {}, errors_as |-> "set"] :
        r2 \in SubReports("2", "1"), t \in Trailers \ {NoReport} }

\* samples whose object query returns a warning with the report
WarnedDocs ==
    { [objs |-> [n \in ObjNums |->
                   IF n = "1"
                   THEN Obj("1", "/Action", <<RefTok("2")>>, FALSE,
                            <<"<<", "/JS", RefTok("2"), "/Annot", ">>++>>">>)
                   ELSE Obj("2", "/Action", <<>>, FALSE, <<"(text)">>)],
       trailer |-> NoReport,
       details |-> [n \in ObjNums |-> <<"(detail)">>],
       fail |-> {}, warn |-> {ObjectQuery("2")}, errors_as |-> t] : t \in {"set", "list"} }

TriageKeywordSets ==
    { {"JavaScript", "JS"}, {"JavaScript"}, {"JS", "Annot"}, {"Annot", "JBIG2Decode"} }

\* the samples a whole pass is run on: one or two objects whose dictionary has
\* one keyword followed by a text, or a JBIG2 image
PassTexts == {"(app.alert(1))"} \cup LongTexts

PassReports1 ==
    { Obj("1", "/Action", <<>>, FALSE, Marked(<<"<<", "/JS", text, ">>">>, marker)) :
        text \in PassTexts, marker \in BOOLEAN }
    \cup
    { Obj("1", "/Action", <<>>, FALSE,
          Marked(<<"<<", "/OpenAction", "(app.alert(1))", ">>">>, marker)) :
        marker \in BOOLEAN }
    \cup
    { Obj("1", "/Action", <<>>, TRUE, Marked(<<"<<", name, "(app.alert(1))", ">>">>, marker)) :
        name \in {"/JS", "/OpenAction"}, marker \in BOOLEAN }
    \cup {NoReport}

PassReports2 ==
    { Obj("2", "/Action", <<>>, FALSE, Marked(<<"<<", "/JS", text, ">>">>, TRUE)) :
        text \in PassTexts }
    \cup { Obj("2", "/XObject", <<>>, TRUE, <<"<<", "/Filter", "/JBIG2Decode", ">>">>),
           NoReport }

\* the names PDFiD counts in a sample
PresentSets ==
    { {}, {"/JS"}, {"/OpenAction", "/URI"},
      {"/JS", "/OpenAction", "/ObjStm"}, {"/JBIG2Decode", "/AA"} }

\* a sample without objects in which PDFiD counts both javascript names and
\* two of the automatic action names
GroupedDocs ==
    { [objs |-> [n \in ObjNums |-> NoReport], trailer |-> NoReport,
       details |-> [n \in ObjNums |-> <<>>], fail |-> {},
       warn |-> {}, errors_as |-> "set",
       present |-> {"/JS", "/JavaScript", "/AA", "/Launch"}, suspicious |-> <<>>] }

\* the queries of a pass over FaultyDocs
PassQueries == { "pdfid", "stats", "search JS", "object 2", "elements", "extract" }

\* samples whose queries fail or return warnings: object 1 refers to object 2,
\* a stream, under /JS
FaultyDocs ==
    { [objs |-> [n \in ObjNums |->
                   IF n = "1"
                   THEN Obj("1", "/Action", <<RefTok("2")>>, FALSE,
                            <<"<<", "/JS", RefTok("2"), ">>", ">>++>>">>)
                   ELSE Obj("2", "/Action", <<>>, TRUE, <<"(text)">>)],
       trailer |-> NoReport,
       details |-> [n \in ObjNums |-> <<>>],
       fail |-> f, warn |-> w, errors_as |-> t,
       present |-> {"/JS"},
       suspicious |-> <<>>] :
        f \in { {} } \cup { {q} : q \in PassQueries \ {"pdfid"} },
        w \in { {}, PassQueries }, t \in {"set", "list"} }

PassDocs ==
    FaultyDocs \cup GroupedDocs \cup
    { [objs |-> [n \in ObjNums |-> IF n = "1" THEN r1 ELSE r2],
       trailer |-> NoReport,
       details |-> [n \in ObjNums |-> <<>>],
       fail |-> {}, warn |-> {}, errors_as |-> "set",
       present |-> pr,
       suspicious |-> << {"eof2"}, {"page"} >>] :
        r1 \in PassReports1, r2 \in PassReports2, pr \in PresentSets }
    \cup
    { [objs |-> [n \in ObjNums |-> NoReport], trailer |-> NoReport,
       details |-> [n \in ObjNums |-> <<>>], fail |-> {"pdfid"},
       warn |-> {}, errors_as |-> "set",
       present |-> {"/JS"}, suspicious |-> <<>>] }

\* ADDITIONAL_KEYS and HEURISTICS of the service configuration
Configs ==
    { [additional_keywords |-> {}, heur |-> {"plugin_triage"}],
      [additional_keywords |-> {"/OpenAction", "/URI"}, heur |-> {}],
      [additional_keywords |-> {"/URI"}, heur |-> {"plugin_triage", "plugin_suspicious_properties"}] }

\* the most /ObjStm objects a sample has
MaxObjStm == 2

\* the documents in the files written from object streams
NestedDocs ==
    { [objs |-> [n \in ObjNums |->
                   IF n = "1"
                   THEN Obj("1", "/Action", <<>>, FALSE,
                            <<"<<", "/JS", "(app.alert(1))", ">>", ">>++>>">>)
                   ELSE NoReport],
       trailer |-> NoReport, details |-> [n \in ObjNums |-> <<>>], fail |-> {},
       warn |-> {}, errors_as |-> "set",
       present |-> {"/JS", "/ObjStm"}, suspicious |-> <<>>],
      [objs |-> [n \in ObjNums |-> NoReport],
       trailer |-> NoReport, details |-> [n \in ObjNums |-> <<>>], fail |-> {},
       warn |-> {}, errors_as |-> "set",
       present |-> {}, suspicious |-> <<>>],
      \* a file on which PDFiDMain raises
      [objs |-> [n \in ObjNums |-> NoReport],
       trailer |-> NoReport, details |-> [n \in ObjNums |-> <<>>], fail |-> {"pdfid"},
       warn |-> {}, errors_as |-> "set",
       present |-> {"/ObjStm"}, suspicious |-> <<>>],
      \* a file for which PDFiD and the keyword search return warnings
      [objs |-> [n \in ObjNums |->
                   IF n = "1"
                   THEN Obj("1", "/Action", <<>>, FALSE,
                            <<"<<", "/JS", "(app.alert(1))", ">>", ">>++>>">>)
                   ELSE NoReport],
       trailer |-> NoReport, details |-> [n \in ObjNums |-> <<>>], fail |-> {},
       warn |-> {"pdfid", "search JS"}, errors_as |-> "set",
       present |-> {"/JS"}, suspicious |-> <<>>] }

\* the decompressed stream that goes with a nested document
StreamOf(nested) ==
    IF nested.present = {} THEN <<"<</A 1>>\n", "<</A 1>>\n">>
    ELSE <<"3 0 4 9 ", "<</A 1>>\n", "<</B 2>>\n">>

\* /ObjStm objects: with a stream, without one, with a report of three lines,
\* and with a query that fails
Containers ==
    { [report |-> Obj(num, "/ObjStm", <<>>, TRUE, <<"<<", "/N", "2", ">>">>),
       fails |-> FALSE, stream |-> StreamOf(nested), nested |-> nested] :
        num \in {"3", "4"}, nested \in NestedDocs }
    \cup
    { [report |-> r, fails |-> f, stream |-> <<>>,
       nested |-> CHOOSE d \in NestedDocs : d.present = {}] :
        r \in UNION { { Obj(num, "/ObjStm", <<>>, FALSE, <<"<<", "/N", "2", ">>">>),
                        << <<"obj", num, "0">>, <<"Type:", "/ObjStm">>, <<"Referencing:">> >> } :
                      num \in {"3", "4"} },
        f \in {FALSE} }
    \cup
    { [report |-> Obj(num, "/ObjStm", <<>>, TRUE, <<"<<", "/N", "2", ">>">>),
       fails |-> TRUE, stream |-> <<>>,
       nested |-> CHOOSE d \in NestedDocs : d.present = {}] : num \in {"3", "4"} }

\* the main documents of the samples execute is run on
MainDocs ==
    { [objs |-> [n \in ObjNums |-> IF n = "1" THEN r1 ELSE NoReport],
       trailer |-> NoReport, details |-> [n \in ObjNums |-> <<>>], fail |-> {},
       warn |-> {}, errors_as |-> "set",
       present |-> pr, suspicious |-> << {"eof2"} >>] :
        r1 \in { NoReport,
                 Obj("1", "/Action", <<>>, FALSE,
                     <<"<<", "/JS", "(app.alert(1))", ">>", ">>++>>">>) },
        pr \in { {"/ObjStm"}, {"/JS", "/ObjStm"}, {"/JS"} } }

\* main documents whose object 1 refers under /JS to object 2, a stream that is
\* an embedded file or an object stream; queries fail or return warnings
FaultyMainDocs ==
    { [objs |-> [n \in ObjNums |->
                   IF n = "1"
                   THEN Obj("1", "/Action", <<RefTok("2")>>, FALSE,
                            <<"<<", "/JS", RefTok("2"), ">>", ">>++>>">>)
                   ELSE Obj("2", typ, <<>>, TRUE, <<"<<", "/N", "2", ">>">>)],
       trailer |-> NoReport, details |-> [n \in ObjNums |-> <<>>],
       fail |-> f, warn |-> w, errors_as |-> "set",
       present |-> {"/JS", "/ObjStm"}, suspicious |-> <<>>] :
        typ \in {"/EmbeddedFile", "/ObjStm"}, f \in { {}, {"elements"} },
        w \in { {}, {"pdfid", "stats", "elements"}, PassQueries } }

\* the object streams of such a sample: object 2 when it is one
FaultyContainers(m) ==
    IF IsObjStm(m.objs["2"])
    THEN { << [report |-> m.objs["2"], fails |-> FALSE, stream |-> StreamOf(nested),
               nested |-> nested] >> : nested \in NestedDocs }
    ELSE { <<>> }

Samples ==
    { [main |-> m, size |-> 1000, containers |-> cs] :
        m \in MainDocs, cs \in UNION { [1..n -> Containers] : n \in 0..MaxObjStm } }
    \cup
    { [main |-> m, size |-> MaxPdfSize, containers |-> <<>>] : m \in MainDocs }
    \cup
    UNION { { [main |-> m, size |-> 1000, containers |-> cs] : cs \in FaultyContainers(m) } :
            m \in FaultyMainDocs }

---------------------------------------------------------------------------
(* write_objstm, lines 645-668, byte by byte                                 *)
(*                                                                           *)
(* Here a byte string is a sequence of one-character strings, so that the    *)
(* regular expressions and bytes.replace of the code work on the bytes they  *)
(* work on in the code.                                                      *)

LL == <<"<", "<">>
GG == <<">", ">">>
B_cr == <<"\r">>
B_lf == <<"\n">>
B_obj == <<"o", "b", "j">>
B_endobj == <<"e", "n", "d">> \o B_obj
B_stream == <<"s", "t", "r", "e", "a", "m">>
B_endstream == <<"e", "n", "d">> \o B_stream

\* line 624
obj_footer == B_cr \o B_endobj \o B_cr

\* str(obj_idx).encode()
Digits(n) ==
    IF n < 10 THEN <<ToString(n)>> ELSE <<ToString(n \div 10), ToString(n % 10)>>

\* str(obj_idx).encode() + b" 0 obj\r"
ObjHeader(n) == Digits(n) \o <<" ", "0", " ">> \o B_obj \o B_cr

\* s[i:].startswith(pat)
StartsAt(s, i, pat) ==
    /\ i >= 1
    /\ i + Len(pat) - 1 <= Len(s)
    /\ \A k \in 1..Len(pat) : s[i + k - 1] = pat[k]

\* s.endswith(pat)
EndsWith(s, pat) == Len(pat) <= Len(s) /\ StartsAt(s, Len(s) - Len(pat) + 1, pat)

\* the least member of a set of indices, 0 for the empty set
First(S) == IF S = {} THEN 0 ELSE CHOOSE i \in S : \A j \in S : i <= j

\* s.replace(b"", new): new is put before every byte and at the end
Interleave(s, new) ==
    LET p == Len(new) + 1
    IN  [j \in 1..(Len(s) * p + Len(new)) |->
            IF (j - 1) % p < Len(new) THEN new[((j - 1) % p) + 1]
            ELSE s[((j - 1) \div p) + 1]]

\* s.replace(old, new): every occurrence of the byte string old, from left to
\* right, one after the end of the other
ReplaceBytes(s, old, new) ==
    LET RECURSIVE From(_)
        From(i) ==
            LET at == First({ k \in i..Len(s) : StartsAt(s, k, old) })
            IN  IF at = 0 THEN SubSeq(s, i, Len(s))
                ELSE SubSeq(s, i, at - 1) \o new \o From(at + Len(old))
    IN  IF old = <<>> THEN Interleave(s, new) ELSE From(1)

\* the number of places of s where pat starts
Occurrences(s, pat) == Cardinality({ i \in 1..Len(s) : StartsAt(s, i, pat) })

\* line 648: re.match(br'[^<]*', stream).group(0)
ExtraContent(s) ==
    LET first == First({ i \in 1..Len(s) : s[i] = "<" })
    IN  IF first = 0 THEN s ELSE SubSeq(s, 1, first - 1)

\* lines 647-649
RemoveExtra(s) ==
    IF StartsAt(s, 1, LL) THEN s
    ELSE ReplaceBytes(s, ExtraContent(s), <<"%">> \o ExtraContent(s) \o B_lf)

\* the index where a match of (<<[^\n]*>>[\x0A\x0D]|<<[^\n]*>>$) that starts
\* at i ends, 0 when there is none: [^\n]* is greedy, so the last '>>' of the
\* line that a line end follows is taken, else a '>>' that ends the bytes
LabelEnd(s, i) ==
    LET lfs == { k \in (i + 2)..Len(s) : s[k] = "\n" }
        eol == IF lfs = {} THEN Len(s) + 1 ELSE CHOOSE k \in lfs : \A m \in lfs : k <= m
        closes == { j \in (i + 2)..(eol - 2) : StartsAt(s, j, GG) }
        ended == { j \in closes : j + 2 <= Len(s) /\ s[j + 2] \in {"\n", "\r"} }
        last == { j \in closes : j + 1 = Len(s) }
    IN  IF ~StartsAt(s, i, LL) THEN 0
        ELSE IF ended # {} THEN (CHOOSE j \in ended : \A m \in ended : m <= j) + 2
        ELSE IF last # {} THEN Len(s)
        ELSE 0

\* line 652: re.findall(rb"(<<[^\n]*>>[\x0A\x0D]|<<[^\n]*>>$)", stream)
FindLabels(s) ==
    LET RECURSIVE Scan(_)
        Scan(i) ==
            LET at == First({ k \in i..Len(s) : LabelEnd(s, k) # 0 })
            IN  IF at = 0 THEN <<>>
                ELSE <<SubSeq(s, at, LabelEnd(s, at))>> \o Scan(LabelEnd(s, at) + 1)
    IN  Scan(1)

\* b"".join(lab.rsplit(b'\n', 1)): lab without its last line feed
JoinRsplitBytes(lab) ==
    LET lfs == { k \in 1..Len(lab) : lab[k] = "\n" }
        k == CHOOSE m \in lfs : \A n \in lfs : n <= m
    IN  IF lfs = {} THEN lab ELSE SubSeq(lab, 1, k - 1) \o SubSeq(lab, k + 1, Len(lab))

\* lines 653-654
WrapLabel(s, lab, idx) ==
    ReplaceBytes(s, lab, ObjHeader(idx) \o JoinRsplitBytes(lab) \o obj_footer)

\* (?!stream)(?![\r\n]endobj)[^<] matches the byte at k
StreamByte(s, k) ==
    /\ k <= Len(s)
    /\ s[k] # "<"
    /\ ~StartsAt(s, k, B_stream)
    /\ ~(s[k] \in {"\r", "\n"} /\ StartsAt(s, k + 1, B_endobj))

\* the first index from k on where no such byte is
StreamExtent(s, k) == First({ m \in k..(Len(s) + 1) : ~StreamByte(s, m) })

\* line 657: re.findall(rb">>(?:(?!stream)(?![\r\n]endobj)[^<])+", stream)
FindStreams(s) ==
    LET RECURSIVE Scan(_)
        Scan(i) ==
            LET at == First({ k \in i..Len(s) : StartsAt(s, k, GG) /\ StreamByte(s, k + 2) })
            IN  IF at = 0 THEN <<>>
                ELSE <<SubSeq(s, at, StreamExtent(s, at + 2) - 1)>>
                     \o Scan(StreamExtent(s, at + 2))
    IN  Scan(1)

\* lines 659-662
WrapStream(s, ste) ==
    IF EndsWith(ste, GG) THEN s
    ELSE ReplaceBytes(s, ste, GG \o B_stream \o B_lf \o SubSeq(ste, 3, Len(ste))
                              \o B_lf \o B_endstream \o B_cr \o B_endobj \o B_cr)

\* (?:(?!endobj).)+ from k on: the first index where 'endobj' starts, or the end
BodyExtent(s, k) ==
    First({ m \in k..(Len(s) + 1) : m > Len(s) \/ StartsAt(s, m, B_endobj) })

\* ([\r\n]<<(?:(?!endobj).)+) matches from k on
LabelStreamAt(s, k) ==
    /\ k <= Len(s)
    /\ s[k] \in {"\r", "\n"}
    /\ StartsAt(s, k + 1, LL)
    /\ k + 3 <= Len(s)
    /\ BodyExtent(s, k + 3) > k + 3

\* where the group of a match that starts at i starts, 0 when there is none:
\* three bytes that are not 'obj', else 'endobj', and then the group
LabelStreamStart(s, i) ==
    IF i + 2 <= Len(s) /\ ~StartsAt(s, i, B_obj) /\ LabelStreamAt(s, i + 3) THEN i + 3
    ELSE IF StartsAt(s, i, B_endobj) /\ LabelStreamAt(s, i + 6) THEN i + 6
    ELSE 0

\* line 664: re.findall(rb'(?:(?:(?!obj)...)|(?:endobj))([\r\n]<<(?:(?!endobj).)+)',
\* stream, re.DOTALL)
FindLabelStreams(s) ==
    LET RECURSIVE Scan(_)
        Scan(i) ==
            LET at == First({ k \in i..Len(s) : LabelStreamStart(s, k) # 0 })
                g == LabelStreamStart(s, at)
            IN  IF at = 0 THEN <<>>
                ELSE <<SubSeq(s, g, BodyExtent(s, g + 3) - 1)>> \o Scan(BodyExtent(s, g + 3))
    IN  Scan(1)

\* lines 666-667
WrapLabelStream(s, lab_ste, idx) ==
    ReplaceBytes(s, lab_ste, B_cr \o ObjHeader(idx) \o SubSeq(lab_ste, 3, Len(lab_ste)))

\* lines 652-655, 657-662, 664-668: the loops over what re.findall returned
RECURSIVE WrapLabels(_, _, _)
WrapLabels(s, labs, idx) ==
    IF labs = <<>> THEN s
    ELSE WrapLabels(WrapLabel(s, Head(labs), idx), Tail(labs), idx + 1)

RECURSIVE WrapStreams(_, _)
WrapStreams(s, stes) ==
    IF stes = <<>> THEN s ELSE WrapStreams(WrapStream(s, Head(stes)), Tail(stes))

RECURSIVE WrapLabelStreams(_, _, _)
WrapLabelStreams(s, lab_stes, idx) ==
    IF lab_stes = <<>> THEN s
    ELSE WrapLabelStreams(WrapLabelStream(s, Head(lab_stes), idx), Tail(lab_stes), idx + 1)

\* lines 645-668: the bytes write_objstm puts between header and trailer
Reconstructed(s) ==
    LET s1 == RemoveExtra(s)
        labs == FindLabels(s1)
        s2 == WrapLabels(s1, labs, 1)
        s3 == WrapStreams(s2, FindStreams(s2))
    IN  WrapLabelStreams(s3, FindLabelStreams(s3), 1 + Len(labs))

\* the streams of the decompressed containers: a dictionary with one byte of
\* content, blocks 'N 0 obj ... endobj' with and without a stream
Dict(c) == LL \o <<c>> \o GG

Block(n, c, eol) ==
    Digits(n) \o <<" ", "0", " ">> \o B_obj \o eol \o Dict(c) \o eol \o B_endobj \o eol

StreamBlock(n, c, eol) ==
    Digits(n) \o <<" ", "0", " ">> \o B_obj \o eol \o Dict(c) \o B_stream \o B_lf
    \o <<"x">> \o B_lf \o B_endstream \o eol \o B_endobj \o eol

\* bytes that already are a sequence of 'N 0 obj ... endobj' blocks
WellFormedStreams ==
    UNION { { Block(1, "A", eol),
              StreamBlock(1, "A", eol),
              Block(1, "A", eol) \o Block(2, "B", eol),
              StreamBlock(1, "A", eol) \o StreamBlock(2, "B", eol),
              Block(1, "A", eol) \o StreamBlock(2, "B", eol) } : eol \in {B_cr, B_lf} }

\* what the parser dumps for an object stream: offsets and dictionaries
RawStreams ==
    { Dict("A") \o B_lf \o Dict("B") \o B_lf,
      <<"3", " ", "0", " ">> \o Dict("A") \o B_lf \o Dict("B") \o B_lf,
      Dict("A") \o B_lf \o Dict("A") \o B_lf,
      Dict("A") \o <<"x">>,
      Dict("A") \o <<"x">> \o Dict("B") \o <<"y">>,
      <<"<", "x">> \o Dict("A") \o B_lf,
      <<"x">> \o Dict("A") \o B_lf \o <<"x">> \o Dict("B") \o B_lf,
      Dict("A") \o B_lf \o <<"y">> \o Dict("A") \o B_lf,
      Dict("A") \o B_lf \o LL \o <<"B">> \o Dict("A") \o B_lf,
      Dict("A") \o B_lf \o Dict("B") \o B_lf \o Dict("A") \o B_lf,
      Dict("A") }

WriteStreams == WellFormedStreams \cup RawStreams

\* the number of times write_objstm is applied, the first time to the dumped
\* stream and then to what it wrote between header and trailer
MaxApply == 2

---------------------------------------------------------------------------
(* analyze_pdf, the loop of line 272 *)

\* what the keyword loop leaves alone
passvars == <<config, get_malform, objstms, run_pdfparse, pdfidres, pending,
              carved_extracted_shas, subres, show_content_of_interest,
              pdf_parserres, files, extracted, obj_to_extract>>

\* what the keyword loop works on
triagevars == <<carved_content, obj_extract_triage, jbig_objs, queried, searched,
                seen_objs, raised, all_errors, log, returned, fallbacks>>

\* what only execute and analyze_objstm work on
drivervars == <<sample, path, contains_objstms, objstm_parts, max_objstm, objstm_extracted,
                osf_todo, wcalls, objstm_on, passes, result, execute_errors, erres>>

\* what only the byte-level write_objstm works on
writevars == <<wstream, obj_idx, found, given, written>>

vars == <<pc, deep_scan, doc, triage_keywords, todo, triagevars, passvars, drivervars,
          writevars>>

Acc == [carved |-> carved_content, extract |-> obj_extract_triage, jbig |-> jbig_objs,
        queried |-> queried, searched |-> searched, seen |-> seen_objs, raised |-> raised,
        errors |-> all_errors, kerrors |-> {}, log |-> log, returned |-> returned,
        fallbacks |-> fallbacks]

\* the name of a search query
SearchQuery(keyword) == "search " \o keyword

\* lines 280-282: a failed search leaves pdf_parser_result = None
SearchFails(d, keyword) == SearchQuery(keyword) \in d.fail

\* lines 273-428: the body of "for keyword in triage_keywords"; the errors of
\* the search and of its sub-queries reach all_errors at lines 427-428
Keyword(st, tk, keyword, d, deep) ==
    LET parts == IF SearchFails(d, keyword) THEN <<>> ELSE ParserSearch(d, keyword)
        errors == IF SearchFails(d, keyword) THEN {} ELSE Warn(d, SearchQuery(keyword))
        r == Parts([st EXCEPT !.seen = @ \cup ReportNums(parts),
                              !.searched = @ \cup {keyword},
                              !.log = @ \cup Caught(d, SearchQuery(keyword)),
                              !.returned = @ \cup errors,
                              !.kerrors = errors],
                   tk, keyword, parts, d, deep)
    IN  IF keyword = "ObjStm" THEN st
        ELSE IF r.raised \/ SearchFails(d, keyword) THEN r
        ELSE [r EXCEPT !.errors = @ \cup r.kerrors]

\* lines 272-428: the whole loop "for keyword in triage_keywords" over the
\* keywords of rest, stopping when an exception leaves it
RECURSIVE Triage(_, _, _, _, _)
Triage(st, tk, rest, d, deep) ==
    IF rest = {} \/ st.raised THEN st
    ELSE LET keyword == CHOOSE k \in rest : TRUE
         IN  Triage(Keyword(st, tk, keyword, d, deep), tk, rest \ {keyword}, d, deep)

\* lines 272-425: one turn of "for keyword in triage_keywords"
Search(keyword) ==
    /\ UNCHANGED writevars
    /\ pc = "triage"
    /\ keyword \in todo
    /\ todo' = todo \ {keyword}
    /\ LET st == Keyword(Acc, triage_keywords, keyword, doc, deep_scan)
       IN  /\ carved_content' = st.carved
           /\ obj_extract_triage' = st.extract
           /\ jbig_objs' = st.jbig
           /\ queried' = st.queried
           /\ searched' = st.searched
           /\ seen_objs' = st.seen
           /\ raised' = st.raised
           /\ all_errors' = st.errors
           /\ log' = st.log
           /\ returned' = st.returned
           /\ fallbacks' = st.fallbacks
           /\ pc' = IF st.raised THEN "raised" ELSE pc
    /\ UNCHANGED <<deep_scan, doc, triage_keywords, passvars>>
    /\ UNCHANGED drivervars

\* the loop of line 272 is over
TriageDone ==
    /\ UNCHANGED writevars
    /\ pc = "triage"
    /\ todo = {}
    /\ pc' = "triaged"
    /\ UNCHANGED <<deep_scan, doc, triage_keywords, todo, triagevars, passvars>>
    /\ UNCHANGED drivervars

---------------------------------------------------------------------------
(* analyze_pdf, before and after the loop of line 272 *)

\* lines 245-265: the statistics query of a pass over the main document; its
\* warnings are kept when it gave a result
Stats(d, run, malform) ==
    IF ~(run /\ malform) THEN [errors |-> {}, log |-> {}, returned |-> {}]
    ELSE IF "stats" \in d.fail
    THEN [errors |-> {}, log |-> Caught(d, "stats"), returned |-> {}]
    ELSE [errors |-> Warn(d, "stats"), log |-> {}, returned |-> Warn(d, "stats")]

\* lines 77-265: PDFiD is run, its flags and plugin lines give the keywords,
\* its errors go to all_errors; then the statistics query.  When PDFiDMain
\* raises, analyze_pdf raises NonRecoverableError (lines 90-93).
RunPdfid ==
    /\ UNCHANGED writevars
    /\ pc = "start"
    /\ \E order \in Orders(Hits(doc)) :
         LET flags == Flags(doc)
             plugin == Plugin(doc, config.heur, order)
             fromflags == FlagKeywords(flags, config.additional_keywords)
             pl == Plugins(plugin)
             run == deep_scan \/ plugin # <<>> \/ fromflags # {}
             stats == Stats(doc, run, get_malform)
         IN  IF "pdfid" \in doc.fail
             THEN /\ pc' = "failed"
                  /\ UNCHANGED <<triage_keywords, todo, objstms, run_pdfparse, pdfidres,
                                 all_errors, log, returned>>
             ELSE /\ objstms' = ("/ObjStm" \in flags)
                  /\ triage_keywords' = fromflags \cup pl.keywords
                  /\ todo' = fromflags \cup pl.keywords
                  /\ run_pdfparse' = run
                  /\ pdfidres' = pl.lines
                  /\ all_errors' = all_errors \cup Warn(doc, "pdfid") \cup stats.errors
                  /\ log' = log \cup stats.log
                  /\ returned' = returned \cup Warn(doc, "pdfid") \cup stats.returned
                  /\ pc' = IF run THEN "triage" ELSE "done"
    /\ UNCHANGED <<deep_scan, doc, carved_content, obj_extract_triage, jbig_objs, queried,
                   searched, seen_objs, raised, fallbacks, config, get_malform, pending,
                   carved_extracted_shas, subres, show_content_of_interest,
                   pdf_parserres, files, extracted, obj_to_extract>>
    /\ UNCHANGED drivervars

\* lines 430-443: the "Content of Interest" section is prepared
CarveStart ==
    /\ UNCHANGED writevars
    /\ pc = "triaged"
    /\ pending' = CarvedEntries(carved_content)
    /\ show_content_of_interest' = (jbig_objs # {})
    /\ subres' = IF jbig_objs # {}
                 THEN << [obj |-> "", keyw |-> "JBIG2DECODE streams", body |-> "inline",
                          con |-> <<>>, ioc |-> FALSE, attached |-> TRUE] >>
                 ELSE <<>>
    /\ pc' = "carving"
    /\ UNCHANGED <<deep_scan, doc, triage_keywords, todo, triagevars, config, get_malform,
                   objstms, run_pdfparse, pdfidres, carved_extracted_shas,
                   pdf_parserres, files, extracted, obj_to_extract>>
    /\ UNCHANGED drivervars

\* lines 447-484: one carved entry is shown in the result or written to a file
Dispose ==
    /\ UNCHANGED writevars
    /\ pc = "carving"
    /\ pending # <<>>
    /\ \E st_value \in BOOLEAN :
         LET e == Head(pending)
             r == Disposition(e[1], e[2], e[3], carved_extracted_shas, st_value)
         IN  /\ subres' = Append(subres, r.subres)
             /\ show_content_of_interest' = (show_content_of_interest \/ r.subres.attached)
             /\ carved_extracted_shas' = r.shas
             /\ files' = IF r.write = <<>> THEN files
                         ELSE [f \in DOMAIN files \cup {r.write[1][1]} |->
                                 IF f = r.write[1][1] THEN r.write[1][2] ELSE files[f]]
             /\ extracted' = IF r.write = <<>> THEN extracted
                             ELSE Append(extracted, r.write[1][1])
    /\ pending' = Tail(pending)
    /\ UNCHANGED <<pc, deep_scan, doc, triage_keywords, todo, triagevars, config,
                   get_malform, objstms, run_pdfparse, pdfidres, pdf_parserres,
                   obj_to_extract>>
    /\ UNCHANGED drivervars

\* lines 486-487: the section is attached when it has something to show
CarveDone ==
    /\ UNCHANGED writevars
    /\ pc = "carving"
    /\ pending = <<>>
    /\ pdf_parserres' = IF show_content_of_interest
                        THEN Append(pdf_parserres, "Content of Interest")
                        ELSE pdf_parserres
    /\ pc' = "elements"
    /\ UNCHANGED <<deep_scan, doc, triage_keywords, todo, triagevars, config, get_malform,
                   objstms, run_pdfparse, pdfidres, pending, carved_extracted_shas, subres,
                   show_content_of_interest, files, extracted, obj_to_extract>>
    /\ UNCHANGED drivervars

\* one of the queries of lines 511, 547 and 577, made when asked is TRUE: what
\* get_pdf_parser logs and what PDFParserMain returns as errors
Query(d, query, asked) ==
    IF ~asked THEN [ok |-> FALSE, log |-> {}, errors |-> {}]
    ELSE IF query \in d.fail THEN [ok |-> FALSE, log |-> Caught(d, query), errors |-> {}]
    ELSE [ok |-> TRUE, log |-> {}, errors |-> Warn(d, query)]

\* lines 489-606: the element query, then the objects collected by the loop
\* are extracted by the parser.  The errors of the element query are
\* overwritten or dropped; those of the two extraction queries reach
\* all_errors at lines 562 and 594.
Elements ==
    /\ UNCHANGED writevars
    /\ pc = "elements"
    /\ LET to_extract == ObjToExtract(doc, obj_extract_triage, jbig_objs)
           qe == Query(doc, "elements", get_malform)
           qo == Query(doc, "extract", get_malform /\ to_extract # {})
           qj == Query(doc, "extract_jb", get_malform /\ deep_scan /\ jbig_objs # {})
           objs == IF qo.ok THEN ParserDump(doc, to_extract, "extracted_obj_") ELSE <<>>
           jb == IF qj.ok THEN ParserDump(doc, jbig_objs, "extracted_jb_obj_") ELSE <<>>
           new == objs \o jb
       IN  /\ files' = [f \in DOMAIN files \cup { new[i] : i \in 1..Len(new) } |->
                          IF f \in DOMAIN files THEN files[f] ELSE Dumped(f)]
           /\ extracted' = extracted \o new
           /\ pdf_parserres' = pdf_parserres
                               \o (IF objs # <<>> THEN <<"Extracted embedded objects">> ELSE <<>>)
                               \o (IF jb # <<>> THEN <<"Extracted JBIG2Decode objects">> ELSE <<>>)
           /\ obj_to_extract' = IF get_malform THEN to_extract ELSE obj_to_extract
           /\ all_errors' = all_errors \cup qo.errors \cup qj.errors
           /\ log' = log \cup qe.log \cup qo.log \cup qj.log
           /\ returned' = returned \cup qe.errors \cup qo.errors \cup qj.errors
    /\ pc' = "done"
    /\ UNCHANGED <<deep_scan, doc, triage_keywords, todo, carved_content, obj_extract_triage,
                   jbig_objs, queried, searched, seen_objs, raised, fallbacks, config,
                   get_malform, objstms, run_pdfparse, pdfidres, pending,
                   carved_extracted_shas, subres, show_content_of_interest>>
    /\ UNCHANGED drivervars

---------------------------------------------------------------------------
(* execute *)

\* line 726: the size test, and the main pass is started
Execute ==
    /\ UNCHANGED writevars
    /\ pc = "execute"
    /\ IF sample.size < MaxPdfSize \/ deep_scan
       THEN /\ pc' = "start"
            /\ path' = <<"main">>
            /\ result' = result
       ELSE /\ pc' = "skipped"
            /\ path' = path
            /\ result' = Append(result, <<"PDF Analysis of the file was skipped">>)
    /\ UNCHANGED <<deep_scan, doc, triage_keywords, todo, triagevars, passvars, sample,
                   contains_objstms, objstm_parts, max_objstm, objstm_extracted, osf_todo,
                   wcalls, objstm_on, passes, execute_errors, erres>>

\* AfterPass with analyze_objstm also called for a nested document
AfterPass_Recurse(p, contains) ==
    IF contains THEN "objstm" ELSE IF p = <<"main">> THEN "errors" ELSE "osf"

\* what execute does when analyze_pdf has returned for the document at path:
\* lines 744-745 after the main pass, the loop of line 747 after a nested one
AfterPass(p, contains) ==
    IF p = <<"main">> THEN (IF contains THEN "objstm" ELSE "errors") ELSE "osf"

\* lines 736-741 and 754-758: analyze_pdf returns to execute
PassReturn ==
    /\ UNCHANGED writevars
    /\ pc = "done"
    /\ path # <<>>
    /\ contains_objstms' = objstms
    /\ passes' = Append(passes, [path |-> path, contains_objstms |-> objstms,
                                 get_malform |-> get_malform])
    /\ result' = Append(result, IF path = <<"main">> THEN <<"Main Document Results">>
                                ELSE <<"ObjStream Object from Parent Object", path[2]>>)
    \* lines 740-741 follow the main pass only; line 754 binds the errors of a
    \* nested pass to a name that is not read again
    /\ execute_errors' = IF path = <<"main">> THEN execute_errors \cup all_errors
                         ELSE execute_errors
    /\ pc' = AfterPass(path, objstms)
    /\ UNCHANGED <<deep_scan, doc, triage_keywords, todo, triagevars, passvars, sample, path,
                   objstm_parts, max_objstm, objstm_extracted, osf_todo, wcalls, objstm_on,
                   erres>>

\* line 745: analyze_objstm, with the calls of write_objstm it makes; the parser
\* answers the element query with the reports of some of the /ObjStm objects
AnalyzeObjstm ==
    /\ UNCHANGED writevars
    /\ pc = "objstm"
    /\ \E n \in 0..Len(sample.containers) :
         LET parts == IF path = <<"main">> THEN ParserObjStm(sample, n) ELSE <<>>
             r == analyze_objstm(files, sample, parts, deep_scan)
         IN  /\ max_objstm' = r.max_obst
             /\ objstm_parts' = parts
             /\ objstm_extracted' = r.objstm_extracted
             /\ wcalls' = r.wcalls
             /\ files' = r.files
             /\ osf_todo' = IF r.raised THEN {} ELSE r.obj_files
             /\ pc' = IF r.raised THEN "raised" ELSE "osf"
    /\ objstm_on' = objstm_on \cup {path}
    /\ UNCHANGED <<deep_scan, doc, triage_keywords, todo, triagevars, config, get_malform,
                   objstms, run_pdfparse, pdfidres, pending, carved_extracted_shas, subres,
                   show_content_of_interest, pdf_parserres, extracted, obj_to_extract,
                   sample, path, contains_objstms, passes, result, execute_errors, erres>>

\* the document PDFiD and the parser see in a file written by write_objstm
NestedDoc(s, osf) ==
    SelectSeq(Versions(s, osf[2]), LAMBDA c : c.stream # <<>>)[1].nested

\* lines 751-752
NestedHeur(heur) ==
    heur \ {"plugin_suspicious_properties", "plugin_embeddedfile", "plugin_nameobfuscation"}

\* lines 747-755: the nested pass for one of the files of analyze_objstm
NestedStart ==
    /\ UNCHANGED writevars
    /\ pc = "osf"
    /\ \E osf \in osf_todo :
         /\ osf_todo' = osf_todo \ {osf}
         /\ path' = osf
         /\ doc' = NestedDoc(sample, osf)
    /\ config' = [config EXCEPT !.heur = NestedHeur(@)]
    /\ get_malform' = FALSE
    /\ pc' = "start"
    /\ triage_keywords' = {}
    /\ todo' = {}
    /\ carved_content' = EmptyCarved
    /\ obj_extract_triage' = {}
    /\ jbig_objs' = {}
    /\ queried' = {}
    /\ searched' = {}
    /\ seen_objs' = {}
    /\ objstms' = FALSE
    /\ run_pdfparse' = deep_scan
    /\ pdfidres' = {}
    /\ pending' = <<>>
    /\ carved_extracted_shas' = {}
    /\ subres' = <<>>
    /\ show_content_of_interest' = FALSE
    /\ pdf_parserres' = <<>>
    /\ all_errors' = {}
    /\ fallbacks' = {}
    /\ UNCHANGED <<deep_scan, raised, log, returned, files, extracted, obj_to_extract, sample,
                   contains_objstms, objstm_parts, max_objstm, objstm_extracted, wcalls,
                   objstm_on, passes, result, execute_errors, erres>>

\* lines 760-764: the loop of line 747 is over, execute returns
Finish ==
    /\ UNCHANGED writevars
    /\ \/ pc = "errors"
       \/ pc = "osf" /\ osf_todo = {}
    /\ erres' = execute_errors
    /\ result' = IF execute_errors # {} THEN Append(result, <<"Errors Analyzing PDF">>)
                 ELSE result
    /\ pc' = "finished"
    /\ UNCHANGED <<deep_scan, doc, triage_keywords, todo, triagevars, passvars, sample, path,
                   contains_objstms, objstm_parts, max_objstm, objstm_extracted, osf_todo,
                   wcalls, objstm_on, passes, execute_errors>>

---------------------------------------------------------------------------
(* write_objstm on the bytes of one dumped stream *)

\* lines 645-652: the stream is read, what comes before the first '<' is made
\* a comment, and the labels are looked for
ReadStream ==
    /\ pc = "w_read"
    /\ wstream' = RemoveExtra(wstream)
    /\ obj_idx' = 1
    /\ found' = FindLabels(RemoveExtra(wstream))
    /\ pc' = "w_labels"
    /\ UNCHANGED <<given, written>>
    /\ UNCHANGED <<deep_scan, doc, triage_keywords, todo, triagevars, passvars, drivervars>>

\* lines 652-655, one label
LabelLoop ==
    /\ pc = "w_labels"
    /\ found # <<>>
    /\ wstream' = WrapLabel(wstream, Head(found), obj_idx)
    /\ obj_idx' = obj_idx + 1
    /\ found' = Tail(found)
    /\ UNCHANGED <<pc, given, written>>
    /\ UNCHANGED <<deep_scan, doc, triage_keywords, todo, triagevars, passvars, drivervars>>

\* line 657: the streams are looked for
LabelsDone ==
    /\ pc = "w_labels"
    /\ found = <<>>
    /\ found' = FindStreams(wstream)
    /\ pc' = "w_streams"
    /\ UNCHANGED <<wstream, obj_idx, given, written>>
    /\ UNCHANGED <<deep_scan, doc, triage_keywords, todo, triagevars, passvars, drivervars>>

\* lines 657-662, one stream
StreamLoop ==
    /\ pc = "w_streams"
    /\ found # <<>>
    /\ wstream' = WrapStream(wstream, Head(found))
    /\ found' = Tail(found)
    /\ UNCHANGED <<pc, obj_idx, given, written>>
    /\ UNCHANGED <<deep_scan, doc, triage_keywords, todo, triagevars, passvars, drivervars>>

\* line 664: the labels with a stream are looked for
StreamsDone ==
    /\ pc = "w_streams"
    /\ found = <<>>
    /\ found' = FindLabelStreams(wstream)
    /\ pc' = "w_labste"
    /\ UNCHANGED <<wstream, obj_idx, given, written>>
    /\ UNCHANGED <<deep_scan, doc, triage_keywords, todo, triagevars, passvars, drivervars>>

\* lines 664-668, one label with its stream
LabelStreamLoop ==
    /\ pc = "w_labste"
    /\ found # <<>>
    /\ wstream' = WrapLabelStream(wstream, Head(found), obj_idx)
    /\ obj_idx' = obj_idx + 1
    /\ found' = Tail(found)
    /\ UNCHANGED <<pc, given, written>>
    /\ UNCHANGED <<deep_scan, doc, triage_keywords, todo, triagevars, passvars, drivervars>>

\* lines 669-670: f.write(header + stream + trailer)
WriteBack ==
    /\ pc = "w_labste"
    /\ found = <<>>
    /\ written' = Append(written, wstream)
    /\ pc' = "w_written"
    /\ UNCHANGED <<wstream, obj_idx, found, given>>
    /\ UNCHANGED <<deep_scan, doc, triage_keywords, todo, triagevars, passvars, drivervars>>

\* write_objstm is given the bytes it wrote between header and trailer
ApplyAgain ==
    /\ pc = "w_written"
    /\ Len(written) < MaxApply
    /\ wstream' = written[Len(written)]
    /\ pc' = "w_read"
    /\ UNCHANGED <<obj_idx, found, given, written>>
    /\ UNCHANGED <<deep_scan, doc, triage_keywords, todo, triagevars, passvars, drivervars>>

---------------------------------------------------------------------------
(* The specifications *)

\* lines 268-270 and the histories
InitTriageVars ==
    /\ carved_content = EmptyCarved
    /\ obj_extract_triage = {}
    /\ jbig_objs = {}
    /\ queried = {}
    /\ searched = {}
    /\ seen_objs = {}
    /\ raised = FALSE
    /\ all_errors = {}
    /\ log = {}
    /\ returned = {}
    /\ fallbacks = {}

\* lines 77-87 and the state the pass works on
InitPassVars ==
    /\ objstms = FALSE
    /\ run_pdfparse = deep_scan
    /\ pdfidres = {}
    /\ pending = <<>>
    /\ carved_extracted_shas = {}
    /\ subres = <<>>
    /\ show_content_of_interest = FALSE
    /\ pdf_parserres = <<>>
    /\ files = [f \in {} |-> <<>>]
    /\ extracted = <<>>
    /\ obj_to_extract = {}

\* execute has not been entered
InitDriverVars ==
    /\ path = <<>>
    /\ contains_objstms = FALSE
    /\ objstm_parts = <<>>
    /\ max_objstm = 0
    /\ objstm_extracted = {}
    /\ osf_todo = {}
    /\ wcalls = <<>>
    /\ objstm_on = {}
    /\ passes = <<>>
    /\ result = <<>>
    /\ execute_errors = {}
    /\ erres = {}

\* write_objstm has not been entered
InitWriteVars ==
    /\ wstream = <<>>
    /\ obj_idx = 0
    /\ found = <<>>
    /\ given = <<>>
    /\ written = <<>>

\* a document none of whose objects is looked at
NoDoc ==
    [objs |-> [n \in {} |-> <<>>], trailer |-> <<>>, details |-> [n \in {} |-> <<>>],
     fail |-> {}, warn |-> {}, errors_as |-> "set", present |-> {}, suspicious |-> {}]

\* the keyword loop alone, on samples of many shapes
InitTriage ==
    /\ pc = "triage"
    /\ deep_scan \in BOOLEAN
    /\ doc \in TriageDocs \cup WarnedDocs
    /\ triage_keywords \in TriageKeywordSets
    /\ todo = triage_keywords
    /\ config = [additional_keywords |-> {}, heur |-> {"plugin_triage"}]
    /\ get_malform = TRUE
    /\ InitTriageVars
    /\ InitPassVars
    /\ InitDriverVars
    /\ InitWriteVars
    /\ sample = [main |-> doc, size |-> 0, containers |-> <<>>]

NextTriage == (\E k \in triage_keywords : Search(k)) \/ TriageDone

SpecTriage == InitTriage /\ [][NextTriage]_vars

\* one whole analyze_pdf pass
Init ==
    /\ pc = "start"
    /\ deep_scan \in BOOLEAN
    /\ doc \in PassDocs
    /\ config \in Configs
    /\ get_malform \in BOOLEAN
    /\ triage_keywords = {}
    /\ todo = {}
    /\ InitTriageVars
    /\ InitPassVars
    /\ InitDriverVars
    /\ InitWriteVars
    /\ sample = [main |-> doc, size |-> 0, containers |-> <<>>]

Next ==
    \/ RunPdfid
    \/ \E k \in triage_keywords : Search(k)
    \/ TriageDone
    \/ CarveStart
    \/ Dispose
    \/ CarveDone
    \/ Elements

Spec == Init /\ [][Next]_vars

\* execute on a sample with object streams
InitExecute ==
    /\ pc = "execute"
    /\ deep_scan \in BOOLEAN
    /\ sample \in Samples
    /\ doc = sample.main
    /\ config = [additional_keywords |-> {},
                 heur |-> {"plugin_triage", "plugin_suspicious_properties"}]
    /\ get_malform = TRUE
    /\ triage_keywords = {}
    /\ todo = {}
    /\ InitTriageVars
    /\ InitPassVars
    /\ InitDriverVars
    /\ InitWriteVars

NextExecute ==
    \/ Execute
    \/ RunPdfid
    \/ \E k \in triage_keywords : Search(k)
    \/ TriageDone
    \/ CarveStart
    \/ Dispose
    \/ CarveDone
    \/ Elements
    \/ PassReturn
    \/ AnalyzeObjstm
    \/ NestedStart
    \/ Finish

SpecExecute == InitExecute /\ [][NextExecute]_vars

\* write_objstm on the bytes of a dumped stream, lines 645-670
InitWrite ==
    /\ pc = "w_read"
    /\ deep_scan = FALSE
    /\ doc = NoDoc
    /\ config = [additional_keywords |-> {}, heur |-> {"plugin_triage"}]
    /\ get_malform = TRUE
    /\ triage_keywords = {}
    /\ todo = {}
    /\ InitTriageVars
    /\ InitPassVars
    /\ InitDriverVars
    /\ sample = [main |-> doc, size |-> 0, containers |-> <<>>]
    /\ wstream \in WriteStreams
    /\ given = wstream
    /\ obj_idx = 0
    /\ found = <<>>
    /\ written = <<>>

NextWrite ==
    \/ ReadStream
    \/ LabelLoop
    \/ LabelsDone
    \/ StreamLoop
    \/ StreamsDone
    \/ LabelStreamLoop
    \/ WriteBack
    \/ ApplyAgain

SpecWrite == InitWrite /\ [][NextWrite]_vars

---------------------------------------------------------------------------
(* Properties of the keyword triage *)

\* C1: at the end of the keyword loop no object number is both in
\* obj_extract_triage and a key of carved_content.
C1_ExtractCarveExclusive ==
    pc = "triaged" => obj_extract_triage \cap DOMAIN carved_content = {}

\* C7: every object number in obj_extract_triage, in jbig_objs or keying
\* carved_content is the object number of a report the parser returned in this
\* pass, and every object id sent to the parser in an object query is the
\* number of an indirect reference, never '' or other text.
C7_NoFabricatedObject ==
    /\ obj_extract_triage \cup jbig_objs \cup DOMAIN carved_content \subseteq seen_objs
    /\ queried \subseteq ObjNums

\* the entries carved from object n under the keywords 'JavaScript' and 'JS'
JSEntries(n) ==
    IF n \in DOMAIN carved_content
    THEN { i \in 1..Len(carved_content[n]) : carved_content[n][i][1] \in {"JavaScript", "JS"} }
    ELSE {}

\* a report that is a hit of both keywords, with the /JS content a slice of the
\* /JavaScript content
DoubleHit(p) ==
    /\ p # NoReport /\ ~IsTrailer(p) /\ HasObjNum(p)
    /\ Has(Flat(p), "/JavaScript") /\ Has(Flat(p), "/JS")
    /\ IsSlice(ContentOf(p, "JS").content, ContentOf(p, "JavaScript").content)

\* C8: with 'JavaScript' and 'JS' both triage keywords, an object that is a hit
\* of both (the /JS content a slice of the /JavaScript content) gets at most one
\* carved or extraction outcome from the two keywords.
C8_OneOutcomeForJS ==
    (pc = "triaged" /\ {"JavaScript", "JS"} \subseteq triage_keywords) =>
        \A n \in ObjNums :
            DoubleHit(doc.objs[n]) =>
                Cardinality(JSEntries(ObjNum(doc.objs[n])))
                  + (IF ObjNum(doc.objs[n]) \in obj_extract_triage THEN 1 ELSE 0) <= 1

---------------------------------------------------------------------------
(* Properties of a whole pass *)

\* the sections built for carved entries (not the JBIG2 list)
CarvedSections == { i \in 1..Len(subres) : subres[i].obj # "" }

\* the files of carved content that hold the given bytes
CarvedFiles(con_bytes) ==
    { f \in DOMAIN files : f[1] = "carved_content_obj_" /\ files[f] = con_bytes }

\* the add_extracted calls for files of carved content that hold the given bytes
CarvedCalls(con_bytes) ==
    { i \in 1..Len(extracted) : extracted[i] \in CarvedFiles(con_bytes) }

\* C2: what is done with a carved text depends only on the length of its
\* encoded bytes: below 500 it is shown inline and nothing is written, from 500
\* on it is digested and written as an artifact and not shown inline.
C2_DispositionByEncodedLength ==
    \A i \in CarvedSections :
        LET con_bytes == Encode(subres[i].con)
        IN  IF con_bytes.len < CarveLimit
            THEN subres[i].body = "inline" /\ CarvedFiles(con_bytes) = {}
            ELSE /\ subres[i].body # "inline"
                 /\ Sha256(con_bytes) \in carved_extracted_shas
                 /\ CarvedFiles(con_bytes) # {}

\* C3 (state part): all the carved entries of 500 characters or more that have
\* the same bytes give exactly one file and one add_extracted call.
C3_OneArtifact ==
    \A i \in CarvedSections :
        StrLen(subres[i].con) >= CarveLimit =>
            /\ Cardinality(CarvedFiles(Encode(subres[i].con))) = 1
            /\ Cardinality(CarvedCalls(Encode(subres[i].con))) = 1

\* C3: within a pass, carved entries of length >= 500 with identical bytes give
\* exactly one written artifact and one add_extracted call, whatever object and
\* keyword they were carved under, and the set of digests written only grows.
C3_DedupByDigest ==
    [](C3_OneArtifact) /\ [][carved_extracted_shas \subseteq carved_extracted_shas']_vars

\* two entries with the same long text, carved under different objects, have
\* both been dealt with
C3_Witness ==
    /\ pc = "elements"
    /\ \E i, j \in CarvedSections :
         /\ subres[i].obj # subres[j].obj
         /\ subres[i].con = subres[j].con
         /\ StrLen(subres[i].con) >= CarveLimit

\* C4: a keyword is searched for, or put in triage_keywords, only if PDFiD
\* lists it in the flags of the sample, also when it comes from a plugin line.
C4_SearchedOnlyIfFlagged ==
    searched \cup triage_keywords \subseteq { Unslash(f) : f \in Flags(doc) }

\* a keyword that is not an additional keyword came from a plugin line and has
\* been searched
C4_Witness ==
    /\ pc = "done"
    /\ "JS" \in searched
    /\ "/JS" \notin config.additional_keywords

\* scenario A: the keyword loop left one carved entry, a text of fewer than 500
\* bytes, and nothing to extract
ScenarioA ==
    /\ pc \in {"elements", "done"}
    /\ obj_extract_triage = {} /\ jbig_objs = {}
    /\ Len(CarvedEntries(carved_content)) = 1
    /\ Encode(CarvedEntries(carved_content)[1][3]).len < CarveLimit

\* the carved entries shown in the result
Reported == IF \E i \in 1..Len(pdf_parserres) : pdf_parserres[i] = "Content of Interest"
            THEN carres ELSE <<>>

\* no file of carved content was written
NoCarvedFile == \A f \in DOMAIN files : f[1] # "carved_content_obj_"

\* C9: in scenario A exactly one inline entry is reported and no artifact is
\* written, whatever the indicator matcher returned.
C9_InlineAlwaysReported ==
    ScenarioA => Len(Reported) = 1 /\ Reported[1].body = "inline" /\ NoCarvedFile

\* C9 (as the code has it): in scenario A no artifact is written, and the one
\* inline entry is reported exactly when the indicator matcher found something
\* in it; otherwise nothing is reported.
C9_InlineReportedOnMatch ==
    ScenarioA =>
        /\ NoCarvedFile
        /\ Len(subres) = 1 /\ subres[1].body = "inline"
        /\ Reported = IF subres[1].ioc THEN subres ELSE <<>>

\* scenario A with a text in which the matcher found nothing
C9_Witness == ScenarioA /\ ~subres[1].ioc /\ pc = "done"

---------------------------------------------------------------------------
(* Properties of execute *)

Reconstructable(s, num) ==
    LET vs == Versions(s, num)
    IN  /\ \A i \in 1..Len(vs) : ~vs[i].fails /\ NL(vs[i].report) >= 4
        /\ \E i \in 1..Len(vs) : Line4IsStream(vs[i].report)
        /\ \E i \in 1..Len(vs) : vs[i].stream # <<>>

\* the object numbers of the /ObjStm reports the element query returned
ReturnedObjStm ==
    { ObjNum(objstm_parts[i]) : i \in { j \in 1..Len(objstm_parts) : IsObjStm(objstm_parts[j]) } }

C6_ObjstmOnlyOnMain == objstm_on \subseteq { <<"main">> }

\* execute has finished and the nested pass of some file reported /ObjStm
C6_Witness ==
    /\ pc = "finished"
    /\ \E i \in 1..Len(passes) : passes[i].path # <<"main">> /\ passes[i].contains_objstms

\* no report of object num says that it contains a stream, or the query for it fails
NoStreamSaid(s, num) ==
    LET vs == Versions(s, num)
    IN  \/ \E i \in 1..Len(vs) : vs[i].fails
        \/ \A i \in 1..Len(vs) : ~ContainsStream(vs[i].report)

\* the files and passes that belong to /ObjStm object num
IsFileOf(f, num) == Len(f) = 3 /\ f[1] = "objstm_" /\ f[2] = num

\* C10: when no report of a container says it contains a stream, or the query
\* for it fails, write_objstm returns None and writes no file, the container is
\* not recorded as extracted and no nested pass is run for it.
C10_NoStreamNoDocument ==
    \A i \in 1..Len(wcalls) :
        NoStreamSaid(sample, wcalls[i].objstm) =>
            /\ wcalls[i].ret = <<>> /\ ~wcalls[i].raised
            /\ wcalls[i].objstm \notin objstm_extracted
            /\ \A f \in DOMAIN files : ~IsFileOf(f, wcalls[i].objstm)
            /\ ~IsFileOf(path, wcalls[i].objstm)
            /\ \A j \in 1..Len(passes) : ~IsFileOf(passes[j].path, wcalls[i].objstm)

---------------------------------------------------------------------------
(* Properties of the error handling *)

\* C11: when get_pdf_parser caught an exception for a query of the pass, the
\* pass does not raise for it, goes on to its end, and the message of the
\* exception is in the all_errors that analyze_pdf returns.
C11_QueryFailureInErrorList ==
    log # {} => /\ pc \notin {"raised", "failed"}
                /\ pc = "done" => log \subseteq all_errors

\* execute has stopped, by returning or by an exception
Ended == pc \in {"finished", "skipped", "failed", "raised"}

\* request.result has a section of this title
InResult(title) == \E i \in 1..Len(result) : result[i][1] = title

\* C12: when PDFiDMain raises in the nested pass of a reconstructed container,
\* execute still ends with the sections of the main document and of the
\* earlier containers in the result, with no container left unprocessed, and
\* with the section "Errors Analyzing PDF" emitted.
C12_NestedScanFailureContained ==
    (Ended /\ "pdfid" \in doc.fail /\ path # <<"main">>) =>
        /\ InResult("Main Document Results")
        /\ Len(result) >= Len(passes)
        /\ osf_todo = {}
        /\ InResult("Errors Analyzing PDF")

\* C13: when execute has returned, every warning PDFiD or the parser returned
\* for a query of the run is a line of the section "Errors Analyzing PDF"
\* (a line each: the section is written from a set), and the section is in the
\* result when there was such a warning.
C13_EveryWarningReported ==
    pc = "finished" =>
        /\ returned \subseteq erres
        /\ returned # {} => InResult("Errors Analyzing PDF")

\* a report of the expected shape: the trailer, or a header with an object
\* number, a type line, a referencing line and at least one line more
Shaped(p) ==
    \/ IsTrailer(p)
    \/ /\ NL(p) >= 4 /\ HasObjNum(p)
       /\ p[2] # <<>> /\ p[2][1] = "Type:"
       /\ p[3] # <<>> /\ p[3][1] = "Referencing:"

\* the report is returned by the search for one of the keywords
IsHit(p, tk) == p # NoReport /\ \E k \in tk : Has(Flat(p), KeyTok(k))

\* the sample without the keyword hits that do not have the expected shape
WithoutMisshapen(d, tk) ==
    [d EXCEPT !.objs = [n \in ObjNums |->
                          IF IsHit(d.objs[n], tk) /\ ~Shaped(d.objs[n]) THEN NoReport
                          ELSE d.objs[n]]]

\* the accumulators before the loop of line 272
Acc0 == [carved |-> EmptyCarved, extract |-> {}, jbig |-> {}, queried |-> {}, searched |-> {},
         seen |-> {}, raised |-> FALSE, errors |-> {}, kerrors |-> {}, log |-> {},
         returned |-> {}, fallbacks |-> {}]

\* carved_content as a set of <<object, keyword, text>>
CarvedSet(carved) ==
    UNION { { <<n, carved[n][i][1], carved[n][i][2]>> : i \in 1..Len(carved[n]) } :
            n \in DOMAIN carved }

\* C14: a keyword hit that does not have the expected shape is skipped on its
\* own: the loop raises no exception for it, and what the loop collects from
\* the other reports is what it collects from the sample without that report.
C14_MisshapenReportSkipped ==
    /\ ~raised
    /\ pc = "triaged" =>
          LET r == Triage(Acc0, triage_keywords, triage_keywords,
                          WithoutMisshapen(doc, triage_keywords), deep_scan)
          IN  /\ obj_extract_triage = r.extract
              /\ jbig_objs = r.jbig
              /\ CarvedSet(carved_content) = CarvedSet(r.carved)

\* the query for object ref_obj fails, returns nothing, or returns a report
\* that lines 371-373 cannot parse
ResolutionFails(d, ref_obj) ==
    LET res == ParserObject(d, ref_obj)
    IN  \/ ~res.ok
        \/ res.parts = <<>>
        \/ \E i \in 1..Len(res.parts) : NL(res.parts[i]) < 3

\* the tokens of report p that the loop of line 356 takes as references
RefTokens(p, tk, keyword) ==
    LET cr == ContentOf(p, keyword)
        cl == ContentList(cr.content, cr.references)
    IN  IF IsJBIG2Stream(keyword, p) \/ cl.drop THEN {}
        ELSE { cl.list[i] : i \in { j \in 1..Len(cl.list) :
                                       /\ ~SkipForJS(tk, keyword, cl.list[j])
                                       /\ LooksLikeRef(cl.list[j], cr.references) } }

\* the object reports the searches of the loop returned, each with its keyword
Hit(d, tk) ==
    UNION { { <<k, ParserSearch(d, k)[i]>> : i \in 1..Len(ParserSearch(d, k)) } :
            k \in { x \in tk \ {"ObjStm"} : ~SearchFails(d, x) } }

\* C15: when the loop has ended, the object of every report with a reference
\* token whose resolution failed is in obj_extract_triage, and lines 407-409
\* have added an original object only for a reference whose resolution failed.
C15_FallbackIffResolutionFailed ==
    pc = "triaged" =>
        /\ \A h \in Hit(doc, triage_keywords) :
             (~IsTrailer(h[2]) /\ HasObjNum(h[2])) =>
                 \A c \in RefTokens(h[2], triage_keywords, h[1]) :
                     ResolutionFails(doc, FirstWord(c)) => ObjNum(h[2]) \in obj_extract_triage
        /\ \A f \in fallbacks : ResolutionFails(doc, f[2])

\* the keywords under which a carved entry was recorded
CarvedKeywords(carved) == { e[2] : e \in CarvedSet(carved) }

\* what the loop collects for the keyword 'JBIG2Decode' alone
JBIG2Alone(d, tk, deep) == Keyword(Acc0, tk, "JBIG2Decode", d, deep)

\* C16: once 'JBIG2Decode' has been searched, none of its reports has given a
\* carved entry: the keyword has put objects in jbig_objs only, and in
\* obj_extract_triage only when deep_scan is true, whether or not the report
\* has '/Filter' or 'Contains stream'.
C16_JBIG2NeverCarved ==
    "JBIG2Decode" \in searched =>
        /\ "JBIG2Decode" \notin CarvedKeywords(carved_content)
        /\ ~deep_scan => JBIG2Alone(doc, triage_keywords, deep_scan).extract = {}

\* the objects of a document that are reported as Type /EmbeddedFile
EmbeddedFiles(d) ==
    { n \in ObjNums : d.objs[n] # NoReport /\ IsEmbeddedFile(d.objs[n]) }

\* C17: the objects sent to the extraction query with the dump prefix
\* 'extracted_obj_' include no object reported as Type /EmbeddedFile, no
\* object of jbig_objs and no /ObjStm container that analyze_objstm has
\* reconstructed.
C17_ExtractedByOnePath ==
    /\ obj_to_extract \cap EmbeddedFiles(sample.main) = {}
    /\ path = <<"main">> => obj_to_extract \cap jbig_objs = {}
    /\ obj_to_extract \cap objstm_extracted = {}

---------------------------------------------------------------------------
(* Properties of the resolution of references *)

\* the reports of the object a reference token resolves to that have no
\* stream and are not of the type of the keyword
PlainSubReports(d, keyword, c) ==
    LET res == ParserObject(d, FirstWord(c))
    IN  { res.parts[i] : i \in { j \in 1..Len(res.parts) :
                                    /\ NL(res.parts[j]) >= 3 /\ HasObjNum(res.parts[j])
                                    /\ ~ContainsStream(res.parts[j])
                                    /\ ~TypeIs(res.parts[j], keyword) } }

\* C19: when a reference token of object O resolves to a sub-object without a
\* stream, of another type than the keyword and with detail text, the entry
\* (keyword, detail) is carved under O's number and not under the number of
\* the sub-object.
C19_CarvedUnderOriginal ==
    pc = "triaged" =>
        \A h \in Hit(doc, triage_keywords) :
            (~IsTrailer(h[2]) /\ HasObjNum(h[2])) =>
                \A c \in RefTokens(h[2], triage_keywords, h[1]) :
                    \A sub_p \in PlainSubReports(doc, h[1], c) :
                        LET detail == ParserObject(doc, FirstWord(c)).obj_details
                        IN  (detail # <<>> /\ ObjNum(sub_p) # ObjNum(h[2])) =>
                                /\ <<ObjNum(h[2]), h[1], detail>> \in CarvedSet(carved_content)
                                /\ <<ObjNum(sub_p), h[1], detail>> \notin CarvedSet(carved_content)

\* the text extracted from report p for the keyword is empty
EmptyContent(p, keyword) ==
    ~IsJBIG2Stream(keyword, p) /\ ContentOf(p, keyword).content = <<>>

\* no candidate reference was collected from report p: none found in the text
\* of the trailer, an empty or missing 'Referencing:' line of an object
NoReference(p, keyword) ==
    IF IsTrailer(p) THEN ContentOf(p, keyword).references = <<>>
    ELSE NL(p) < 3 \/ Without(p[3], "Referencing:") = <<>>

\* C20: for a report of a searched keyword whose extracted text is empty, the
\* references collected are processed as the content when there is one, and
\* when there is none the report is dropped: no sub-query, nothing added to
\* obj_extract_triage, nothing carved.
C20_EmptyContentDroppedOrReferences ==
    \A h \in Hit(doc, searched) :
        EmptyContent(h[2], h[1]) =>
            LET cr == ContentOf(h[2], h[1])
                cl == ContentList(cr.content, cr.references)
                r == Part(Acc0, triage_keywords, h[1], h[2], doc, deep_scan)
            IN  IF NoReference(h[2], h[1])
                THEN r.queried = {} /\ r.extract = {} /\ r.carved = EmptyCarved
                ELSE ~cl.drop /\ cl.list = cr.references

---------------------------------------------------------------------------
(* Properties of the reconstruction of an object stream *)

\* ' 0 obj', the part of an object header all headers share
HeaderMark == <<" ", "0", " ">> \o B_obj

\* C18: applied to bytes that already are a sequence of 'N 0 obj ... endobj'
\* blocks, write_objstm adds no object header, no stream marker and no object
\* footer, and applied again to the bytes it wrote between header and trailer
\* it writes the same bytes.
C18_ReconstructionIdempotent ==
    (pc = "w_written" /\ given \in WellFormedStreams) =>
        /\ Occurrences(written[1], HeaderMark) = Occurrences(given, HeaderMark)
        /\ Occurrences(written[1], B_stream) = Occurrences(given, B_stream)
        /\ Occurrences(written[1], B_endobj) = Occurrences(given, B_endobj)
        /\ Len(written) = MaxApply => written[2] = written[1]

\* the bytes the running application of write_objstm has read at line 645
ReadBytes == IF written = <<>> THEN given ELSE written[Len(written)]

\* lines 647-649 have just run: no label has been wrapped yet
ExtraRemoved == pc = "w_labels" /\ obj_idx = 1 /\ found = FindLabels(wstream)

\* C21: when the bytes read do not begin with '<<', the bytes before the first
\* '<' become one comment line, '%' + bytes + line feed, and every byte after
\* them is what it was, also when the same bytes occur again later and when
\* there is no byte before the first '<'.
C21_OnlyLeadingSpanCommented ==
    (ExtraRemoved /\ ~StartsAt(ReadBytes, 1, LL)) =>
        wstream = <<"%">> \o ExtraContent(ReadBytes) \o B_lf
                  \o SubSeq(ReadBytes, Len(ExtraContent(ReadBytes)) + 1, Len(ReadBytes))

\* the places of s just before which an object header 'd 0 obj\r' has its id d
HeaderIdsAt(s) == { i \in 1..Len(s) : StartsAt(s, i + 1, HeaderMark \o B_cr) }

\* write_objstm has written what it made of a dumped stream without headers
FirstWritten ==
    pc = "w_written" /\ Len(written) = 1 /\ Occurrences(given, HeaderMark) = 0

\* C22: in the bytes written, the object headers carry the ids 1, 2, ..., n,
\* each id once, and there is one header for each dictionary span the loops of
\* lines 652 and 664 visited, also when two spans are the same bytes or one is
\* part of another.
C22_SequentialDistinctIds ==
    FirstWritten =>
        LET at == HeaderIdsAt(written[1])
            n == Cardinality(at)
        IN  /\ { written[1][i] : i \in at } = { ToString(k) : k \in 1..n }
            /\ n = obj_idx - 1

---------------------------------------------------------------------------
(* Properties of the scoring of grouped keywords *)

\* the groups cPDFiDTriage.Score scores as one
JSGroup == {"/JS", "/JavaScript"}
AutoGroup == {"/AA", "/OpenAction", "/Launch"}

\* the sample with the names of a group counted zero times
Uncounted(d, names) == [d EXCEPT !.present = @ \ names]

\* what the names of a group add to the score of the sample
GroupScore(d, names) == Score(d) - Score(Uncounted(d, names))

\* the lines of one plugin that analyze_pdf attached with the javascript heuristic
JavascriptLines(pl_name) == { l \in pdfidres : l[1] = pl_name /\ l[3] = 19 }

\* C23: /JS and /JavaScript together add 100 to the score when one or both are
\* counted, /AA, /OpenAction and /Launch together add 50 when at least one is
\* counted, every counted name of the two groups is in hits, and analyze_pdf
\* attaches heuristic 19 to at most one line of the output of a plugin.
C23_GroupsScoredOnce ==
    pc # "start" =>
        /\ GroupScore(doc, JSGroup) = (IF JSGroup \cap doc.present # {} THEN 100 ELSE 0)
        /\ GroupScore(doc, AutoGroup) = (IF AutoGroup \cap doc.present # {} THEN 50 ELSE 0)
        /\ (JSGroup \cup AutoGroup) \cap doc.present \subseteq Hits(doc)
        /\ \A pl_name \in {"Triage", "Suspicious Properties"} :
               Cardinality(JavascriptLines(pl_name)) <= 1

\* the pass is over for a sample in which both javascript names and two of the
\* automatic action names are counted: the Triage plugin gave a line for each,
\* both keywords are triaged and one line carries heuristic 19
C23_Witness ==
    /\ pc = "done"
    /\ JSGroup \subseteq doc.present
    /\ Cardinality(AutoGroup \cap doc.present) >= 2
    /\ {"JS", "JavaScript"} \subseteq triage_keywords
    /\ Cardinality(JavascriptLines("Triage")) = 1

=============================================================================
